---- MODULE Spec2Model ----
(***************************************************************************)
(* NekoLog API: the workflow layer (cat, toilet-log, statistics and image  *)
(* workflows), the two repositories over the D1 (SQLite) tables `cats`     *)
(* and `toilet_logs`, and the period bucket keys of the statistics.        *)
(*                                                                         *)
(* One request is one workflow invocation.  A workflow is a neverthrow     *)
(* chain: the synchronous part up to the first repository call is the      *)
(* invocation step, and every repository or storage call after it is one   *)
(* step of its own (the storage engine runs one statement at a time; other *)
(* requests may run between two awaited calls).                            *)
(***************************************************************************)
EXTENDS Integers, Sequences, FiniteSets, TLC

VARIABLES
    cats,     \* rows of table `cats`
    logs,     \* rows of table `toilet_logs`
    bucket,   \* keys of the objects held by the R2 bucket
    idSeq,    \* number of identifiers crypto.randomUUID() has handed out
    req,      \* per request slot: the workflow invocation in flight
    clock,    \* the wall clock, in ticks
    probe,    \* bucket keys: the timestamp under evaluation
    keys,     \* bucket keys: the keys computed for probe (or NoKeys)
    seen      \* observer: the table states that have existed (or NoHistory)

vars == <<cats, logs, bucket, idSeq, req, clock, probe, keys, seen>>

(***************************************************************************)
(* Bounds of the model.                                                    *)
(***************************************************************************)
MaxIds == 2          \* identifiers generated in one run
MaxProcs == 2        \* request slots of the concurrent specification
MaxTicks == 1        \* times the wall clock advances
ProbeDays == 84      \* days covered by the bucket-key probes
MaxTotal == 120      \* rows a count statement reports in the pagination probes
MaxPage == 2         \* page numbers asked for in the pagination probes
MaxSeen == 3         \* table states an observer records

(***************************************************************************)
(* Values.  A nullable column or an optional argument is <<>> (null) or    *)
(* <<v>>.  An identifier is <<"uuid", n>>: the n-th value handed out by    *)
(* crypto.randomUUID(); n also stands for the row's insertion order.       *)
(***************************************************************************)
Null == <<>>
Some(v) == <<v>>
Undefined == "undefined"           \* a property that is not there, read as a text
UndefinedId == <<"undefined", 0>>  \* ... read as an identifier
UUID(n) == <<"uuid", n>>
NotAUuid == <<"invalid-uuid", 0>>

(***************************************************************************)
(* Calendar arithmetic of the two date engines (JavaScript Date in UTC,    *)
(* SQLite date()): both convert a civil date to a day number and back in   *)
(* the proleptic Gregorian calendar.  Day 0 is 1970-01-01, a Thursday.     *)
(***************************************************************************)
DaysFromCivil(y, m, d) ==
    LET yy  == IF m <= 2 THEN y - 1 ELSE y
        era == yy \div 400
        yoe == yy - era * 400
        mp  == (m + 9) % 12
        doy == (153 * mp + 2) \div 5 + d - 1
        doe == yoe * 365 + yoe \div 4 - yoe \div 100 + doy
    IN  era * 146097 + doe - 719468

CivilFromDays(z) ==
    LET zz  == z + 719468
        era == zz \div 146097
        doe == zz - era * 146097
        yoe == (doe - doe \div 1460 + doe \div 36524 - doe \div 146096) \div 365
        doy == doe - (365 * yoe + yoe \div 4 - yoe \div 100)
        mp  == (5 * doy + 2) \div 153
        d   == doy - (153 * mp + 2) \div 5 + 1
        m   == IF mp < 10 THEN mp + 3 ELSE mp - 9
        y   == yoe + era * 400 + (IF m <= 2 THEN 1 ELSE 0)
    IN  <<y, m, d>>

\* Date.prototype.getUTCDay / SQLite's day of week: 0 = Sunday .. 6 = Saturday
DayOfWeek(z) == (z + 4) % 7

(***************************************************************************)
(* An ISO 8601 instant "YYYY-MM-DDTHH:MM:SS[.mmm]Z" as the columns hold it *)
(* (text): y, m, d, s = second of the day, f = the milliseconds, or -1     *)
(* when the text has no fractional part.                                   *)
(***************************************************************************)
Iso(y, m, d, s, f) == [y |-> y, m |-> m, d |-> d, s |-> s, f |-> f]

\* the rank of the text after the seconds: ".000Z" < ... < ".999Z" < "Z"
FracRank(f) == IF f = -1 THEN 1000 ELSE f

\* text comparison a <= b of two ISO instants (drizzle lte / gte on a text
\* column): the first field that differs decides
IsoLeq(a, b) ==
    IF a.y # b.y THEN a.y < b.y
    ELSE IF a.m # b.m THEN a.m < b.m
    ELSE IF a.d # b.d THEN a.d < b.d
    ELSE IF a.s # b.s THEN a.s < b.s
    ELSE FracRank(a.f) <= FracRank(b.f)

IsoLess(a, b) == IsoLeq(a, b) /\ a # b

\* lexicographic order of two keys of the same shape ("YYYY-MM-DD", "YYYY-MM")
KeyLess(a, b) ==
    \E i \in 1..Len(a) : /\ a[i] < b[i]
                         /\ \A j \in 1..(i - 1) : a[j] = b[j]

RECURSIVE KeysInOrder(_)
\* keys in ascending order: keys.sort((a, b) => a.localeCompare(b)) in the
\* workflow, ORDER BY periodKey in the storage engine
KeysInOrder(ks) ==
    IF ks = {} THEN <<>>
    ELSE LET first == CHOOSE k \in ks : \A other \in ks \ {k} : KeyLess(k, other)
         IN  <<first>> \o KeysInOrder(ks \ {first})

(***************************************************************************)
(* Period bucket keys.                                                     *)
(***************************************************************************)
\* timestamp.slice(0, 10)
getDateKey(timestamp) == <<timestamp.y, timestamp.m, timestamp.d>>

\* timestamp.slice(0, 7)
getMonthKey(timestamp) == <<timestamp.y, timestamp.m>>

\* mutant: Sunday is not treated apart (day - 1 is -1: the Monday after)
getWeekKeySundayForward(timestamp) ==
    LET date         == DaysFromCivil(timestamp.y, timestamp.m, timestamp.d)
        mondayOffset == DayOfWeek(date) - 1
        monday       == DaysFromCivil(timestamp.y, timestamp.m, 1)
                            + (timestamp.d - mondayOffset) - 1
    IN  CivilFromDays(monday)

\* the Monday of the UTC week, by Date arithmetic
getWeekKey(timestamp) ==
    LET date         == DaysFromCivil(timestamp.y, timestamp.m, timestamp.d)
        day          == DayOfWeek(date)
        mondayOffset == IF day = 0 THEN 6 ELSE day - 1
        \* setUTCDate(getUTCDate() - mondayOffset): a day of the month below 1
        \* rolls into the months before
        monday       == DaysFromCivil(timestamp.y, timestamp.m, 1)
                            + (timestamp.d - mondayOffset) - 1
    IN  CivilFromDays(monday)

getGroupKey(timestamp, period) ==
    CASE period = "daily"   -> getDateKey(timestamp)
      [] period = "weekly"  -> getWeekKey(timestamp)
      [] period = "monthly" -> getMonthKey(timestamp)

\* SQLite modifier 'weekday N': move forward to the next day whose day of
\* week is N; a day that already is stays
SqlWeekday(z, n) ==
    LET Z  == DayOfWeek(z)
        Zn == IF Z > n THEN Z - 7 ELSE Z
    IN  z + (n - Zn)

\* mutant: the '-6 days' modifier left out (the key is the Monday that follows)
SqlWeeklyKeyNoShift(timestamp) ==
    CivilFromDays(
        SqlWeekday(DaysFromCivil(timestamp.y, timestamp.m, timestamp.d), 1))

\* date(timestamp, '-6 days', 'weekday 1')
SqlWeeklyKey(timestamp) ==
    CivilFromDays(
        SqlWeekday(DaysFromCivil(timestamp.y, timestamp.m, timestamp.d) - 6, 1))

\* the periodKey expression of aggregateByPeriod
periodKey(timestamp, period) ==
    CASE period = "daily"   -> getDateKey(timestamp)       \* substr(ts, 1, 10)
      [] period = "monthly" -> getMonthKey(timestamp)      \* substr(ts, 1, 7)
      [] OTHER              -> SqlWeeklyKey(timestamp)

(***************************************************************************)
(* Domain errors and results.                                              *)
(***************************************************************************)
validation(field, message) == [type |-> "validation", field |-> field, message |-> message]
notFound(resource, id)     == [type |-> "not_found", resource |-> resource, id |-> id]
unauthorized(message)      == [type |-> "unauthorized", message |-> message]
confirmationRequired       == [type |-> "confirmation_required"]
database(message)          == [type |-> "database", message |-> message]

Ok(v)  == [ok |-> TRUE, value |-> v]
Err(e) == [ok |-> FALSE, error |-> e]
Void   == "void"

\* error.issues[0]: path.join(".") || "unknown", message ?? "Validation failed"
fromZodError(issues) ==
    IF issues = <<>>
        THEN validation("unknown", "Validation failed")
        ELSE validation(IF issues[1].path = "" THEN "unknown" ELSE issues[1].path,
                        issues[1].message)

(***************************************************************************)
(* Request input: an object is a record whose DOMAIN is the set of keys    *)
(* the caller supplied.  A number is an integer; a datetime is an Iso      *)
(* record, with s = -1 for a text that has no time part ("2020-01-15").    *)
(***************************************************************************)
Has(obj, k) == k \in DOMAIN obj
EmptyObject == [k \in {} |-> Null]
Issue(path, message) == [path |-> path, message |-> message]
IsUuid(v) == v[1] = "uuid"
IsDatetime(v) == v.s >= 0
IsToiletType(v) == v \in {"urine", "feces"}
IsPeriod(v) == v \in {"today", "week", "month"}
\* the keys of obj the schema declares (zod strips the others)
Strip(obj, schemaKeys) == [k \in (DOMAIN obj) \cap schemaKeys |-> obj[k]]
Only(seq, cond) == IF cond THEN seq ELSE <<>>

NameMax == 50
BreedMax == 50
NoteMax == 500
PageLimitMax == 100
DefaultPage == 1
DefaultLimit == 20

\* createCatSchema (partial = FALSE) and updateCatSchema (partial = TRUE)
catSchemaIssues(input, partial) ==
       Only(<<Issue("name", "required")>>, ~partial /\ ~Has(input, "name"))
    \o Only(<<Issue("name", "too_small")>>, Has(input, "name") /\ Len(input.name) < 1)
    \o Only(<<Issue("name", "too_big")>>, Has(input, "name") /\ Len(input.name) > NameMax)
    \o Only(<<Issue("birthDate", "invalid_datetime")>>,
            Has(input, "birthDate") /\ ~IsDatetime(input.birthDate))
    \o Only(<<Issue("breed", "too_big")>>, Has(input, "breed") /\ Len(input.breed) > BreedMax)
    \o Only(<<Issue("weight", "not_positive")>>, Has(input, "weight") /\ ~(input.weight > 0))

catSchemaKeys == {"name", "birthDate", "breed", "weight"}

\* createLogSchema (partial = FALSE) and updateLogSchema (partial = TRUE)
logSchemaIssues(input, partial) ==
       Only(<<Issue("catId", "required")>>, ~partial /\ ~Has(input, "catId"))
    \o Only(<<Issue("catId", "invalid_uuid")>>, Has(input, "catId") /\ ~IsUuid(input.catId))
    \o Only(<<Issue("type", "required")>>, ~partial /\ ~Has(input, "type"))
    \o Only(<<Issue("type", "invalid_enum")>>, Has(input, "type") /\ ~IsToiletType(input.type))
    \o Only(<<Issue("timestamp", "invalid_datetime")>>,
            Has(input, "timestamp") /\ ~IsDatetime(input.timestamp))
    \o Only(<<Issue("note", "too_big")>>, Has(input, "note") /\ Len(input.note) > NoteMax)

logSchemaKeys == {"catId", "type", "timestamp", "note"}

\* logsQuerySchema: page and limit are coerced integers with defaults
logsQueryIssues(query) ==
       Only(<<Issue("catId", "invalid_uuid")>>, Has(query, "catId") /\ ~IsUuid(query.catId))
    \o Only(<<Issue("type", "invalid_enum")>>, Has(query, "type") /\ ~IsToiletType(query.type))
    \o Only(<<Issue("from", "invalid_datetime")>>, Has(query, "from") /\ ~IsDatetime(query.from))
    \o Only(<<Issue("to", "invalid_datetime")>>, Has(query, "to") /\ ~IsDatetime(query.to))
    \o Only(<<Issue("page", "not_positive")>>, Has(query, "page") /\ ~(query.page > 0))
    \o Only(<<Issue("limit", "not_positive")>>, Has(query, "limit") /\ ~(query.limit > 0))
    \o Only(<<Issue("limit", "too_big")>>, Has(query, "limit") /\ query.limit > PageLimitMax)

logsQueryKeys == {"catId", "type", "from", "to", "page", "limit"}

logsQueryParsed(query) ==
    LET q == Strip(query, logsQueryKeys)
    IN  [k \in (DOMAIN q) \cup {"page", "limit"} |->
            IF k \in DOMAIN q THEN q[k]
            ELSE IF k = "page" THEN DefaultPage ELSE DefaultLimit]

\* statsQuerySchema
statsQueryIssues(query) ==
       Only(<<Issue("catId", "invalid_uuid")>>, Has(query, "catId") /\ ~IsUuid(query.catId))
    \o Only(<<Issue("period", "invalid_enum")>>, Has(query, "period") /\ ~IsPeriod(query.period))
    \o Only(<<Issue("from", "invalid_datetime")>>, Has(query, "from") /\ ~IsDatetime(query.from))
    \o Only(<<Issue("to", "invalid_datetime")>>, Has(query, "to") /\ ~IsDatetime(query.to))

statsQueryKeys == {"catId", "period", "from", "to"}

(***************************************************************************)
(* The validate* helpers of the workflows: safeParse, then errAsync of the *)
(* first issue or okAsync of the parsed data.                              *)
(***************************************************************************)
\* mutant: the parse result is not looked at
safeParseAccept(issues, data) == Ok(data)

safeParse(issues, data) == IF issues = <<>> THEN Ok(data) ELSE Err(fromZodError(issues))

validateCreateCatInput(input) == safeParse(catSchemaIssues(input, FALSE), Strip(input, catSchemaKeys))
validateUpdateCatInput(input) == safeParse(catSchemaIssues(input, TRUE), Strip(input, catSchemaKeys))
validateCreateLogInput(input) == safeParse(logSchemaIssues(input, FALSE), Strip(input, logSchemaKeys))
validateUpdateLogInput(input) == safeParse(logSchemaIssues(input, TRUE), Strip(input, logSchemaKeys))
validateLogsQuery(query)      == safeParse(logsQueryIssues(query), logsQueryParsed(query))
validateStatsQuery(query)     == safeParse(statsQueryIssues(query), Strip(query, statsQueryKeys))

(***************************************************************************)
(* The storage engine.  Every operator below is one SQL statement (or one  *)
(* R2 request) run against the tables c = cats and l = toilet_logs; it     *)
(* yields the rows it returns and the tables it leaves.  `fault` is a      *)
(* failure of the engine itself (the promise rejects).                     *)
(***************************************************************************)
Users == {"A", "B"}      \* rows of table `users`, written by no code of the API

CatColumns == {"id", "userId", "name", "birthDate", "breed", "weight",
               "imageUrl", "createdAt", "updatedAt"}
LogColumns == {"id", "catId", "type", "timestamp", "note", "createdAt", "updatedAt"}

\* the row an INSERT writes: the values given, the column default otherwise
InsertedRow(columns, values, now) ==
    [k \in columns |->
        IF k \in DOMAIN values THEN values[k]
        ELSE IF k \in {"createdAt", "updatedAt"} THEN now ELSE Null]

\* the row an UPDATE ... SET writes
UpdatedRow(row, set) ==
    [k \in DOMAIN row |-> IF k \in DOMAIN set THEN set[k] ELSE row[k]]

With(obj, k, v) == [x \in (DOMAIN obj) \cup {k} |-> IF x = k THEN v ELSE obj[x]]

\* what a rejected statement throws: an Error carrying the engine's text
EngineError(message) == [name |-> "Error", message |-> message]

Stmt(rows, c, l) ==
    [rows |-> rows, failed |-> FALSE, error |-> Null, cats |-> c, logs |-> l]
StmtFailed(c, l) ==
    [rows |-> {}, failed |-> TRUE, error |-> EngineError("D1_ERROR: statement failed"),
     cats |-> c, logs |-> l]

\* the statement st, rejected with the Error `fault` when there is one
Raised(st, fault) == IF fault = Null THEN st ELSE [st EXCEPT !.error = fault[1]]

\* INSERT INTO cats ... RETURNING: primary key, NOT NULL and the foreign key
\* to users(id) are enforced
SqlInsertCat(c, l, values, now, fault) ==
    LET row == InsertedRow(CatColumns, With(With(values, "createdAt", now), "updatedAt", now), now)
    IN  IF \/ fault
           \/ \E x \in c : x.id = row.id
           \/ row.userId \notin Users
           \/ ~Has(values, "name") \/ values.name = Undefined
        THEN StmtFailed(c, l)
        ELSE Stmt({row}, c \cup {row}, l)

\* mutant: the owner is left out of the WHERE clause of the UPDATE
SqlUpdateCatAnyOwner(c, l, id, userId, set, fault) ==
    LET hit == {x \in c : x.id = id}
        new == {UpdatedRow(x, set) : x \in hit}
    IN  IF fault THEN StmtFailed(c, l) ELSE Stmt(new, (c \ hit) \cup new, l)

\* UPDATE cats SET ... WHERE id = ? AND user_id = ? RETURNING
SqlUpdateCat(c, l, id, userId, set, fault) ==
    LET hit == {x \in c : x.id = id /\ x.userId = userId}
        new == {UpdatedRow(x, set) : x \in hit}
    IN  IF fault THEN StmtFailed(c, l) ELSE Stmt(new, (c \ hit) \cup new, l)

\* mutant: ON DELETE CASCADE missing from toilet_logs.cat_id
SqlDeleteCatNoCascade(c, l, id, userId, fault) ==
    LET hit == {x \in c : x.id = id /\ x.userId = userId}
    IN  IF fault THEN StmtFailed(c, l) ELSE Stmt(hit, c \ hit, l)

\* DELETE FROM cats WHERE id = ? AND user_id = ? RETURNING id; the rows of
\* toilet_logs that reference a deleted cat go with it (ON DELETE CASCADE)
SqlDeleteCat(c, l, id, userId, fault) ==
    LET hit == {x \in c : x.id = id /\ x.userId = userId}
    IN  IF fault THEN StmtFailed(c, l)
        ELSE Stmt(hit, c \ hit, {x \in l : \A h \in hit : x.catId # h.id})

\* mutant: the owner is left out of the WHERE clause
SqlSelectCatAnyOwner(c, l, id, userId, fault) ==
    IF fault THEN StmtFailed(c, l) ELSE Stmt({x \in c : x.id = id}, c, l)

\* SELECT * FROM cats WHERE id = ? AND user_id = ?
SqlSelectCat(c, l, id, userId, fault) ==
    IF fault THEN StmtFailed(c, l)
    ELSE Stmt({x \in c : x.id = id /\ x.userId = userId}, c, l)

\* SELECT * FROM cats WHERE user_id = ?
SqlSelectCatsOfUser(c, l, userId, fault) ==
    IF fault THEN StmtFailed(c, l)
    ELSE Stmt({x \in c : x.userId = userId}, c, l)

\* mutant: the foreign key toilet_logs.cat_id -> cats.id is not enforced
SqlInsertLogNoForeignKey(c, l, values, now, fault) ==
    LET row == InsertedRow(LogColumns, With(With(values, "createdAt", now), "updatedAt", now), now)
    IN  IF fault \/ (\E x \in l : x.id = row.id)
        THEN StmtFailed(c, l)
        ELSE Stmt({row}, c, l \cup {row})

\* INSERT INTO toilet_logs ... RETURNING: primary key, NOT NULL and the
\* foreign key to cats(id) are enforced
SqlInsertLog(c, l, values, now, fault) ==
    LET row == InsertedRow(LogColumns, With(With(values, "createdAt", now), "updatedAt", now), now)
    IN  IF \/ fault
           \/ \E x \in l : x.id = row.id
           \/ ~(\E x \in c : x.id = row.catId)
           \/ ~Has(values, "type") \/ values.type = Undefined
           \/ ~Has(values, "timestamp")
        THEN StmtFailed(c, l)
        ELSE Stmt({row}, c, l \cup {row})

\* mutant: the join with cats left out of the ownership lookup
SqlSelectLogAnyOwner(c, l, logId, userId, fault) ==
    IF fault THEN StmtFailed(c, l)
    ELSE Stmt({x \in l : x.id = logId}, c, l)

\* findLogWithOwnership: SELECT toilet_logs.* FROM toilet_logs INNER JOIN
\* cats ON cat_id = cats.id WHERE toilet_logs.id = ? AND cats.user_id = ?
SqlSelectLogOfUser(c, l, logId, userId, fault) ==
    IF fault THEN StmtFailed(c, l)
    ELSE Stmt({x \in l : /\ x.id = logId
                          /\ \E k \in c : k.id = x.catId /\ k.userId = userId}, c, l)

\* UPDATE toilet_logs SET ... WHERE id = ? RETURNING
SqlUpdateLog(c, l, id, set, fault) ==
    LET hit == {x \in l : x.id = id}
        new == {UpdatedRow(x, set) : x \in hit}
    IN  IF fault THEN StmtFailed(c, l) ELSE Stmt(new, c, (l \ hit) \cup new)

\* DELETE FROM toilet_logs WHERE id = ?
SqlDeleteLog(c, l, id, fault) ==
    IF fault THEN StmtFailed(c, l) ELSE Stmt({}, c, {x \in l : x.id # id})

\* mutant: eq(cats.userId, userId) left out of the conditions
MatchesFiltersAnyOwner(c, x, userId, query) ==
    /\ Has(query, "catId") => x.catId = query.catId
    /\ Has(query, "type") => x.type = query.type
    /\ Has(query, "from") => IsoLeq(query.from, x.timestamp)
    /\ Has(query, "to") => IsoLeq(x.timestamp, query.to)

\* the WHERE clause of findWithFilters: the caller's cats, and each filter
\* the query carries
MatchesFilters(c, x, userId, query) ==
    /\ \E k \in c : k.id = x.catId /\ k.userId = userId
    /\ Has(query, "catId") => x.catId = query.catId
    /\ Has(query, "type") => x.type = query.type
    /\ Has(query, "from") => IsoLeq(query.from, x.timestamp)
    /\ Has(query, "to") => IsoLeq(x.timestamp, query.to)

\* SELECT count(*) ... WHERE conditions
SqlCountLogs(c, l, userId, query, fault) ==
    IF fault THEN StmtFailed(c, l)
    ELSE Stmt({Cardinality({x \in l : MatchesFilters(c, x, userId, query)})}, c, l)

\* ORDER BY timestamp DESC: rows of one timestamp come in storage order,
\* ascending or descending as the query plan has it
ComesBefore(a, b, tieAsc) ==
    \/ IsoLess(b.timestamp, a.timestamp)
    \/ /\ a.timestamp = b.timestamp
       /\ IF tieAsc THEN a.id[2] < b.id[2] ELSE a.id[2] > b.id[2]

RECURSIVE DropFirst(_, _, _)
\* the rows that are left after the first n rows of the order
DropFirst(rows, n, tieAsc) ==
    IF n <= 0 \/ rows = {} THEN rows
    ELSE LET first == CHOOSE x \in rows : \A y \in rows \ {x} : ComesBefore(x, y, tieAsc)
         IN  DropFirst(rows \ {first}, n - 1, tieAsc)

RECURSIVE DropLast(_, _, _)
\* the rows that are left after the last n rows of the order
DropLast(rows, n, tieAsc) ==
    IF n <= 0 \/ rows = {} THEN rows
    ELSE LET last == CHOOSE x \in rows : \A y \in rows \ {x} : ComesBefore(y, x, tieAsc)
         IN  DropLast(rows \ {last}, n - 1, tieAsc)

\* SELECT ... WHERE conditions ORDER BY timestamp DESC LIMIT ? OFFSET ?
\* (a negative OFFSET counts as 0, a negative LIMIT as no limit)
SqlSelectLogsPage(c, l, userId, query, limit, offset, tieAsc, fault) ==
    LET M     == {x \in l : MatchesFilters(c, x, userId, query)}
        after == DropFirst(M, offset, tieAsc)
    IN  IF fault THEN StmtFailed(c, l)
        ELSE IF limit < 0 THEN Stmt(after, c, l)
        ELSE Stmt(DropLast(after, Cardinality(after) - limit, tieAsc), c, l)

\* sum(case when type = 'urine' then 1 else 0 end), and the same for feces
TypeCounts(rows) ==
    [urineCount |-> Cardinality({x \in rows : x.type = "urine"}),
     fecesCount |-> Cardinality({x \in rows : x.type = "feces"})]

\* SELECT cat_id, sum(..), sum(..) FROM toilet_logs INNER JOIN cats
\* WHERE user_id = ? AND timestamp >= ? AND timestamp <= ? GROUP BY cat_id
SqlAggregateByCat(c, l, userId, from, to, fault) ==
    LET M == {x \in l : MatchesFilters(c, x, userId, [from |-> from, to |-> to])}
    IN  IF fault THEN StmtFailed(c, l)
        ELSE Stmt({With(TypeCounts({x \in M : x.catId = k}), "catId", k) :
                      k \in {x.catId : x \in M}}, c, l)

\* SELECT periodKey, sum(..), sum(..) ... WHERE conditions GROUP BY periodKey
\* ORDER BY periodKey; the condition on cat_id is there `if (catId)`
SqlAggregateByPeriod(c, l, userId, from, to, period, catId, fault) ==
    LET query == IF catId = UndefinedId THEN [from |-> from, to |-> to]
                 ELSE [from |-> from, to |-> to, catId |-> catId]
        M     == {x \in l : MatchesFilters(c, x, userId, query)}
    IN  IF fault THEN StmtFailed(c, l)
        ELSE Stmt({With(TypeCounts({x \in M : periodKey(x.timestamp, period) = k}), "date", k) :
                      k \in {periodKey(x.timestamp, period) : x \in M}}, c, l)

\* the rows of a result set as the array the driver returns: in storage
\* order (no ORDER BY), or by timestamp descending
RowBefore(a, b, order) ==
    CASE order = "storage"    -> a.id[2] < b.id[2]
      [] order = "newestAsc"  -> ComesBefore(a, b, TRUE)
      [] order = "newestDesc" -> ComesBefore(a, b, FALSE)

RECURSIVE RowsInOrder(_, _)
RowsInOrder(rows, order) ==
    IF rows = {} THEN <<>>
    ELSE LET first == CHOOSE x \in rows : \A y \in rows \ {x} : RowBefore(x, y, order)
         IN  <<first>> \o RowsInOrder(rows \ {first}, order)

NewestFirst(tieAsc) == IF tieAsc THEN "newestAsc" ELSE "newestDesc"

(***************************************************************************)
(* The repositories: ResultAsync.fromPromise around the statements.  The   *)
(* operators below turn what a statement returned into the repository's    *)
(* Result.                                                                 *)
(***************************************************************************)
\* mutant: the engine's text is handed on in the error
toDatabaseErrorRaw(error, message) == database(error.message)

\* the error callback of fromPromise: the Error is logged, and a database
\* error with the method's own message is returned
toDatabaseError(error, message) == database(message)

\* throw new Error("NOT_FOUND"): what update and delete throw without a row
NOT_FOUND == EngineError("NOT_FOUND")

\* the error callback of update and delete
orNotFound(error, resource, id, message) ==
    IF error.message = "NOT_FOUND" THEN notFound(resource, id)
    ELSE toDatabaseError(error, message)

TheRow(rows) == CHOOSE x \in rows : TRUE
\* rows[0] ?? null
FirstOrNull(rows) == IF rows = {} THEN Null ELSE Some(TheRow(rows))
\* rows[0]! : the assertion is erased at run time
FirstUnchecked(rows) == IF rows = {} THEN Undefined ELSE TheRow(rows)

catRepoCreate(st) ==
    IF st.failed THEN Err(toDatabaseError(st.error, "Failed to create cat")) ELSE Ok(FirstUnchecked(st.rows))

catRepoUpdate(st, id) ==
    IF st.failed THEN Err(orNotFound(st.error, "cat", id, "Failed to update cat"))
    ELSE IF st.rows = {}
        THEN Err(orNotFound(NOT_FOUND, "cat", id, "Failed to update cat"))
    ELSE Ok(TheRow(st.rows))

catRepoDelete(st, id) ==
    IF st.failed THEN Err(orNotFound(st.error, "cat", id, "Failed to delete cat"))
    ELSE IF st.rows = {}
        THEN Err(orNotFound(NOT_FOUND, "cat", id, "Failed to delete cat"))
    ELSE Ok(Void)

catRepoFindById(st) ==
    IF st.failed THEN Err(toDatabaseError(st.error, "Failed to find cat")) ELSE Ok(FirstOrNull(st.rows))

catRepoFindAllByUserId(st) ==
    IF st.failed THEN Err(toDatabaseError(st.error, "Failed to find cats"))
    ELSE Ok(RowsInOrder(st.rows, "storage"))

logRepoCreate(st) ==
    IF st.failed THEN Err(toDatabaseError(st.error, "Failed to create toilet log"))
    ELSE Ok(FirstUnchecked(st.rows))

\* update and delete: the outcome of the ownership lookup (the statement
\* findLogWithOwnership runs first) ...
logRepoOwnershipCheck(st, id, message) ==
    IF st.failed THEN Err(orNotFound(st.error, "toilet_log", id, message))
    ELSE IF st.rows = {} THEN Err(orNotFound(NOT_FOUND, "toilet_log", id, message))
    ELSE Ok(TheRow(st.rows))

\* ... and of the write that follows it
logRepoUpdate(st, id) ==
    IF st.failed
        THEN Err(orNotFound(st.error, "toilet_log", id, "Failed to update toilet log"))
    ELSE Ok(FirstUnchecked(st.rows))

logRepoDelete(st, id) ==
    IF st.failed
        THEN Err(orNotFound(st.error, "toilet_log", id, "Failed to delete toilet log"))
    ELSE Ok(Void)

logRepoFindById(st) ==
    IF st.failed THEN Err(toDatabaseError(st.error, "Failed to find toilet log"))
    ELSE Ok(FirstOrNull(st.rows))

\* mutant: the quotient is rounded down
FloorDiv(total, limit) == total \div limit

\* Math.ceil(total / limit)
CeilDiv(total, limit) == (total + limit - 1) \div limit

\* findWithFilters: the count statement ...
logRepoFindCount(st) ==
    IF st.failed THEN Err(toDatabaseError(st.error, "Failed to find toilet logs")) ELSE Ok(TheRow(st.rows))

\* ... and the page statement, with the result object built from both.  The
\* array `logs` is held as the set of its rows and the order they come in.
logRepoFindWithFilters(st, total, page, limit, tieAsc) ==
    IF st.failed THEN Err(toDatabaseError(st.error, "Failed to find toilet logs"))
    ELSE Ok([logs |-> st.rows, order |-> NewestFirst(tieAsc), total |-> total,
             page |-> page, limit |-> limit, totalPages |-> CeilDiv(total, limit)])

\* aggregateByCat: the groups, in no order the statement fixes
logRepoAggregateByCat(st) ==
    IF st.failed THEN Err(toDatabaseError(st.error, "Failed to aggregate toilet logs by cat"))
    ELSE Ok(st.rows)

\* aggregateByPeriod: the groups in key order
logRepoAggregateByPeriod(st) ==
    IF st.failed
        THEN Err(toDatabaseError(st.error, "Failed to aggregate toilet logs by period"))
    ELSE Ok(LET order == KeysInOrder({x.date : x \in st.rows})
            IN  [i \in 1..Len(order) |-> CHOOSE x \in st.rows : x.date = order[i]])

(***************************************************************************)
(* Requests.  req[p] is the invocation request slot p runs: the workflow   *)
(* and its arguments, the position in its chain (pc), the steps of the     *)
(* chain that have completed (trace: the call, its arguments, the Result   *)
(* it returned), what the earlier steps handed on (tmp) and the Result the *)
(* workflow returned (when pc = "done").                                   *)
(***************************************************************************)
Procs == 1..MaxProcs

Idle == [op |-> "idle", pc |-> "idle", userId |-> "", id |-> Null,
         input |-> EmptyObject, confirmed |-> FALSE, trace |-> <<>>,
         tmp |-> EmptyObject, result |-> Null]

Invoke(op, userId, id, input, confirmed) ==
    [op |-> op, pc |-> "invoked", userId |-> userId, id |-> id,
     input |-> input, confirmed |-> confirmed, trace |-> <<>>,
     tmp |-> EmptyObject, result |-> Null]

Step(call, args, result) == [call |-> call, args |-> args, result |-> result]

\* the workflow ends with the Result of its last step
Finish(r, step) ==
    [r EXCEPT !.trace = Append(@, step), !.pc = "done", !.result = step.result]

\* mutant: a failure is passed on wrapped into a generic error
andThenWrapped(r, step, nextPc, tmp) ==
    IF step.result.ok
        THEN [r EXCEPT !.trace = Append(@, step), !.pc = nextPc, !.tmp = tmp]
        ELSE [r EXCEPT !.trace = Append(@, step), !.pc = "done",
                       !.result = Err(database("Workflow failed"))]

\* ResultAsync.andThen: on a failure the chain ends with that failure; on a
\* success the callback runs up to its next awaited call (nextPc)
andThen(r, step, nextPc, tmp) ==
    IF step.result.ok
        THEN [r EXCEPT !.trace = Append(@, step), !.pc = nextPc, !.tmp = tmp]
        ELSE Finish(r, step)

\* value ?? null
OrNull(obj, k) == IF Has(obj, k) THEN Some(obj[k]) ELSE Null
\* obj.k, where k may be missing
Prop(obj, k) == IF Has(obj, k) THEN obj[k] ELSE Undefined
PropId(obj, k) == IF Has(obj, k) THEN obj[k] ELSE UndefinedId

\* new Date().toISOString(): the run starts on 2024-01-16 at 08:00:00.000Z
\* and a tick is one second
Now == Iso(2024, 1, 16, 8 * 3600 + clock, 0)

\* crypto.randomUUID()
generateId == UUID(idSeq + 1)

\* the contents of both tables, as one value
StoreState(c, l) == [cats |-> c, logs |-> l]

\* a statement's effect on the tables; an observer that is switched on
\* (seen is Some sequence) also records the state the statement leaves behind
Store(st) ==
    /\ cats' = st.cats
    /\ logs' = st.logs
    /\ seen' = LET s == StoreState(st.cats, st.logs)
                IN  IF seen = Null \/ s = seen[1][Len(seen[1])] THEN seen
                    ELSE <<Append(seen[1], s)>>

(***************************************************************************)
(* Cat workflows.                                                          *)
(***************************************************************************)
\* mutant: omitted optional fields are passed on as they are (undefined)
NewCatSparse(id, userId, validated) ==
    [k \in {"id", "userId", "name"} \cup DOMAIN validated |->
        CASE k = "id" -> id
          [] k = "userId" -> userId
          [] k = "name" -> Prop(validated, "name")
          [] OTHER -> Some(validated[k])]

\* the object registerCat hands to catRepo.create
NewCat(id, userId, validated) ==
    [id |-> id, userId |-> userId, name |-> Prop(validated, "name"),
     birthDate |-> OrNull(validated, "birthDate"),
     breed |-> OrNull(validated, "breed"),
     weight |-> OrNull(validated, "weight")]

registerCat(p, userId, input, fault) ==
    LET r   == Invoke("registerCat", userId, Null, input, FALSE)
        v   == validateCreateCatInput(input)
        r1  == andThen(r, Step("validate", <<input>>, v), "create", EmptyObject)
        id  == generateId
        new == NewCat(id, userId, v.value)
        st  == SqlInsertCat(cats, logs, new, Now, fault)
    IN  /\ req[p].pc = "idle"
        /\ idSeq < MaxIds
        /\ IF r1.pc = "done"
              THEN /\ req' = [req EXCEPT ![p] = r1]
                   /\ UNCHANGED <<seen, cats, logs, idSeq>>
              ELSE /\ req' = [req EXCEPT ![p] =
                            Finish([r1 EXCEPT !.tmp = [id |-> id]],
                                   Step("catRepo.create", <<new>>, catRepoCreate(st)))]
                   /\ Store(st)
                   /\ idSeq' = idSeq + 1
        /\ UNCHANGED <<bucket, clock, probe, keys>>

\* mutant: the patch names all four fields, null where the input has none
CatUpdateDataDense(validated) ==
    [k \in {"name", "birthDate", "breed", "weight"} |->
        IF k = "name" THEN Prop(validated, "name") ELSE OrNull(validated, k)]

\* the sparse patch updateCat builds: only the fields the input carries
CatUpdateData(validated) ==
    [k \in (DOMAIN validated) \cap {"name", "birthDate", "breed", "weight"} |->
        IF k = "name" THEN validated.name ELSE Some(validated[k])]

updateCat(p, userId, catId, input, fault) ==
    LET r   == Invoke("updateCat", userId, catId, input, FALSE)
        v   == validateUpdateCatInput(input)
        r1  == andThen(r, Step("validate", <<input>>, v), "update", EmptyObject)
        updateData == CatUpdateData(v.value)
        st  == SqlUpdateCat(cats, logs, catId, userId, With(updateData, "updatedAt", Now), fault)
    IN  /\ req[p].pc = "idle"
        /\ IF r1.pc = "done"
              THEN /\ req' = [req EXCEPT ![p] = r1]
                   /\ UNCHANGED <<seen, cats, logs>>
              ELSE /\ req' = [req EXCEPT ![p] =
                            Finish(r1, Step("catRepo.update", <<catId, userId, updateData>>,
                                            catRepoUpdate(st, catId)))]
                   /\ Store(st)
        /\ UNCHANGED <<bucket, idSeq, clock, probe, keys>>

\* mutant: the confirmation flag is not looked at
ConfirmSkipped(confirmed) == Ok(Void)

\* if (!confirmed) return errAsync(confirmationRequired())
Confirm(confirmed) == IF confirmed THEN Ok(Void) ELSE Err(confirmationRequired)

deleteCat(p, userId, catId, confirmed, fault) ==
    LET r  == Invoke("deleteCat", userId, catId, EmptyObject, confirmed)
        g  == Confirm(confirmed)
        st == SqlDeleteCat(cats, logs, catId, userId, fault)
    IN  /\ req[p].pc = "idle"
        /\ IF ~g.ok
              THEN /\ req' = [req EXCEPT ![p] = Finish(r, Step("confirm", <<confirmed>>, g))]
                   /\ UNCHANGED <<seen, cats, logs>>
              ELSE /\ req' = [req EXCEPT ![p] =
                            Finish(r, Step("catRepo.delete", <<catId, userId>>,
                                           catRepoDelete(st, catId)))]
                   /\ Store(st)
        /\ UNCHANGED <<bucket, idSeq, clock, probe, keys>>

\* mutant: a null row is passed on as a row of that id
FoundOrAssumed(found, resource, id) ==
    Ok(IF found = Null THEN [id |-> id, name |-> ""] ELSE found[1])

\* the callback after findById: a null row is not-found
FoundOr(found, resource, id) ==
    IF found = Null THEN Err(notFound(resource, id)) ELSE Ok(found[1])

getCat(p, userId, catId, fault) ==
    LET r     == Invoke("getCat", userId, catId, EmptyObject, FALSE)
        st    == SqlSelectCat(cats, logs, catId, userId, fault)
        found == catRepoFindById(st)
        r1    == andThen(r, Step("catRepo.findById", <<catId, userId>>, found), "check", EmptyObject)
    IN  /\ req[p].pc = "idle"
        /\ req' = [req EXCEPT ![p] =
                     IF r1.pc = "done" THEN r1
                     ELSE Finish(r1, Step("check", <<>>, FoundOr(found.value, "cat", catId)))]
        /\ UNCHANGED <<seen, cats, logs, bucket, idSeq, clock, probe, keys>>

listCats(p, userId, fault) ==
    LET r  == Invoke("listCats", userId, Null, EmptyObject, FALSE)
        st == SqlSelectCatsOfUser(cats, logs, userId, fault)
    IN  /\ req[p].pc = "idle"
        /\ req' = [req EXCEPT ![p] =
                     Finish(r, Step("catRepo.findAllByUserId", <<userId>>,
                                    catRepoFindAllByUserId(st)))]
        /\ UNCHANGED <<seen, cats, logs, bucket, idSeq, clock, probe, keys>>

(***************************************************************************)
(* Toilet-log workflows.  logRepo.update, logRepo.delete and               *)
(* logRepo.findWithFilters run two statements each; the second one is a    *)
(* step of its own.                                                        *)
(***************************************************************************)
\* the object addLog hands to logRepo.create
NewLog(id, validated, now) ==
    [id |-> id, catId |-> PropId(validated, "catId"), type |-> Prop(validated, "type"),
     timestamp |-> IF Has(validated, "timestamp") THEN validated.timestamp ELSE now,
     note |-> OrNull(validated, "note")]

addLog(p, userId, input, fault) ==
    LET r     == Invoke("addLog", userId, Null, input, FALSE)
        v     == validateCreateLogInput(input)
        r1    == andThen(r, Step("validate", <<input>>, v), "findCat", EmptyObject)
        catId == PropId(v.value, "catId")
        st    == SqlSelectCat(cats, logs, catId, userId, fault)
        found == catRepoFindById(st)
        r2    == andThen(r1, Step("catRepo.findById", <<catId, userId>>, found), "check", EmptyObject)
        r3    == andThen(r2, Step("check", <<>>, FoundOr(found.value, "cat", catId)), "create",
                         [new |-> NewLog(generateId, v.value, Now), now |-> Now])
    IN  /\ req[p].pc = "idle"
        /\ idSeq < MaxIds
        /\ IF r1.pc = "done" THEN req' = [req EXCEPT ![p] = r1] /\ UNCHANGED idSeq
           ELSE IF r2.pc = "done" THEN req' = [req EXCEPT ![p] = r2] /\ UNCHANGED idSeq
           ELSE /\ req' = [req EXCEPT ![p] = r3]
                /\ idSeq' = IF r3.pc = "create" THEN idSeq + 1 ELSE idSeq
        /\ UNCHANGED <<seen, cats, logs, bucket, clock, probe, keys>>

\* mutant: an insert that failed is tried again
addLogCreateRetry(p, fault) ==
    LET r    == req[p]
        st   == SqlInsertLog(cats, logs, r.tmp.new, r.tmp.now, fault)
        step == Step("logRepo.create", <<r.tmp.new>>, logRepoCreate(st))
    IN  /\ r.op = "addLog" /\ r.pc = "create"
        /\ req' = [req EXCEPT ![p] =
                     IF step.result.ok THEN Finish(r, step)
                     ELSE [r EXCEPT !.trace = Append(@, step)]]
        /\ Store(st)
        /\ UNCHANGED <<bucket, idSeq, clock, probe, keys>>

addLogCreate(p, fault) ==
    LET r  == req[p]
        st == SqlInsertLog(cats, logs, r.tmp.new, r.tmp.now, fault)
    IN  /\ r.op = "addLog" /\ r.pc = "create"
        /\ req' = [req EXCEPT ![p] =
                     Finish(r, Step("logRepo.create", <<r.tmp.new>>, logRepoCreate(st)))]
        /\ Store(st)
        /\ UNCHANGED <<bucket, idSeq, clock, probe, keys>>

\* mutant: every validated field is written, the parent cat included
LogUpdateDataAll(validated) ==
    [k \in DOMAIN validated |->
        IF k = "note" THEN Some(validated.note) ELSE validated[k]]

\* the sparse patch updateLog builds
LogUpdateData(validated) ==
    [k \in (DOMAIN validated) \cap {"type", "timestamp", "note"} |->
        IF k = "note" THEN Some(validated.note) ELSE validated[k]]

updateLog(p, userId, logId, input, fault) ==
    LET r   == Invoke("updateLog", userId, logId, input, FALSE)
        v   == validateUpdateLogInput(input)
        r1  == andThen(r, Step("validate", <<input>>, v), "update", EmptyObject)
        updateData == LogUpdateData(v.value)
        st  == SqlSelectLogOfUser(cats, logs, logId, userId, fault)
        own == logRepoOwnershipCheck(st, logId, "Failed to update toilet log")
    IN  /\ req[p].pc = "idle"
        /\ req' = [req EXCEPT ![p] =
                     IF r1.pc = "done" THEN r1
                     ELSE IF ~own.ok
                         THEN Finish(r1, Step("logRepo.update", <<logId, userId, updateData>>, own))
                         ELSE [r1 EXCEPT !.pc = "write", !.tmp = [updateData |-> updateData]]]
        /\ UNCHANGED <<seen, cats, logs, bucket, idSeq, clock, probe, keys>>

updateLogWrite(p, fault) ==
    LET r  == req[p]
        st == SqlUpdateLog(cats, logs, r.id, With(r.tmp.updateData, "updatedAt", Now), fault)
    IN  /\ r.op = "updateLog" /\ r.pc = "write"
        /\ req' = [req EXCEPT ![p] =
                     Finish(r, Step("logRepo.update", <<r.id, r.userId, r.tmp.updateData>>,
                                    logRepoUpdate(st, r.id)))]
        /\ Store(st)
        /\ UNCHANGED <<bucket, idSeq, clock, probe, keys>>

deleteLog(p, userId, logId, confirmed, fault) ==
    LET r   == Invoke("deleteLog", userId, logId, EmptyObject, confirmed)
        g   == Confirm(confirmed)
        st  == SqlSelectLogOfUser(cats, logs, logId, userId, fault)
        own == logRepoOwnershipCheck(st, logId, "Failed to delete toilet log")
    IN  /\ req[p].pc = "idle"
        /\ req' = [req EXCEPT ![p] =
                     IF ~g.ok THEN Finish(r, Step("confirm", <<confirmed>>, g))
                     ELSE IF ~own.ok
                         THEN Finish(r, Step("logRepo.delete", <<logId, userId>>, own))
                         ELSE [r EXCEPT !.pc = "write"]]
        /\ UNCHANGED <<seen, cats, logs, bucket, idSeq, clock, probe, keys>>

deleteLogWrite(p, fault) ==
    LET r  == req[p]
        st == SqlDeleteLog(cats, logs, r.id, fault)
    IN  /\ r.op = "deleteLog" /\ r.pc = "write"
        /\ req' = [req EXCEPT ![p] =
                     Finish(r, Step("logRepo.delete", <<r.id, r.userId>>, logRepoDelete(st, r.id)))]
        /\ Store(st)
        /\ UNCHANGED <<bucket, idSeq, clock, probe, keys>>

getLog(p, userId, logId, fault) ==
    LET r     == Invoke("getLog", userId, logId, EmptyObject, FALSE)
        st    == SqlSelectLogOfUser(cats, logs, logId, userId, fault)
        found == logRepoFindById(st)
        r1    == andThen(r, Step("logRepo.findById", <<logId, userId>>, found), "check", EmptyObject)
    IN  /\ req[p].pc = "idle"
        /\ req' = [req EXCEPT ![p] =
                     IF r1.pc = "done" THEN r1
                     ELSE Finish(r1, Step("check", <<>>, FoundOr(found.value, "toilet_log", logId)))]
        /\ UNCHANGED <<seen, cats, logs, bucket, idSeq, clock, probe, keys>>

\* the first statement of findWithFilters for the query held in r.tmp
FindCount(r, userId, query, fault) ==
    LET cnt == logRepoFindCount(SqlCountLogs(cats, logs, userId, query, fault))
    IN  IF ~cnt.ok THEN Finish(r, Step("logRepo.findWithFilters", <<userId, query>>, cnt))
        ELSE [r EXCEPT !.pc = "page", !.tmp = With(With(@, "query", query), "total", cnt.value)]

\* the second statement of findWithFilters, and the Result of the call
FindPage(r, tieAsc, fault) ==
    LET q  == r.tmp.query
        st == SqlSelectLogsPage(cats, logs, r.userId, q, q.limit, (q.page - 1) * q.limit,
                                tieAsc, fault)
    IN  Step("logRepo.findWithFilters", <<r.userId, q>>,
             logRepoFindWithFilters(st, r.tmp.total, q.page, q.limit, tieAsc))

getHistory(p, userId, query, fault) ==
    LET r   == Invoke("getHistory", userId, Null, query, FALSE)
        v   == validateLogsQuery(query)
        r1  == andThen(r, Step("validate", <<query>>, v), "count", EmptyObject)
    IN  /\ req[p].pc = "idle"
        /\ req' = [req EXCEPT ![p] =
                     IF r1.pc = "done" THEN r1 ELSE FindCount(r1, userId, v.value, fault)]
        /\ UNCHANGED <<seen, cats, logs, bucket, idSeq, clock, probe, keys>>

getHistoryPage(p, tieAsc, fault) ==
    LET r == req[p]
    IN  /\ r.op = "getHistory" /\ r.pc = "page"
        /\ req' = [req EXCEPT ![p] = Finish(r, FindPage(r, tieAsc, fault))]
        /\ UNCHANGED <<seen, cats, logs, bucket, idSeq, clock, probe, keys>>

(***************************************************************************)
(* Statistics workflows.                                                   *)
(***************************************************************************)
StatsRowLimit == 1000     \* the `limit` both workflows pass to findWithFilters

RECURSIVE SumOf(_, _)
\* array.reduce((sum, c) => sum + c[field], 0)
SumOf(seq, field) ==
    IF seq = <<>> THEN 0 ELSE seq[1][field] + SumOf(Tail(seq), field)

\* the per-cat entry getDailySummary builds from the fetched rows
CatSummaryOf(cat, rows) ==
    LET catLogs    == {x \in rows : x.catId = cat.id}
        urineCount == Cardinality({x \in catLogs : x.type = "urine"})
        fecesCount == Cardinality({x \in catLogs : x.type = "feces"})
    IN  [catId |-> cat.id, catName |-> cat.name, urineCount |-> urineCount,
         fecesCount |-> fecesCount, totalCount |-> urineCount + fecesCount]

\* mutant: only the cats that have a row among the fetched ones are listed
DailySummaryOfActive(date, catList, rows) ==
    LET active          == SelectSeq(catList, LAMBDA cat : \E x \in rows : x.catId = cat.id)
        catSummaries    == [i \in 1..Len(active) |-> CatSummaryOf(active[i], rows)]
        totalUrineCount == SumOf(catSummaries, "urineCount")
        totalFecesCount == SumOf(catSummaries, "fecesCount")
    IN  [date |-> date, cats |-> catSummaries, totalUrineCount |-> totalUrineCount,
         totalFecesCount |-> totalFecesCount,
         totalCount |-> totalUrineCount + totalFecesCount]

DailySummaryOf(date, catList, rows) ==
    LET catSummaries    == [i \in 1..Len(catList) |-> CatSummaryOf(catList[i], rows)]
        totalUrineCount == SumOf(catSummaries, "urineCount")
        totalFecesCount == SumOf(catSummaries, "fecesCount")
    IN  [date |-> date, cats |-> catSummaries, totalUrineCount |-> totalUrineCount,
         totalFecesCount |-> totalFecesCount,
         totalCount |-> totalUrineCount + totalFecesCount]

getDailySummary(p, userId, todayDate, fault) ==
    LET r     == Invoke("getDailySummary", userId, Null, [todayDate |-> todayDate], FALSE)
        date  == IF todayDate = Null THEN getDateKey(Now) ELSE todayDate[1]
        from  == Iso(date[1], date[2], date[3], 0, 0)
        to    == Iso(date[1], date[2], date[3], 86399, 999)
        st    == SqlSelectCatsOfUser(cats, logs, userId, fault)
        found == catRepoFindAllByUserId(st)
    IN  /\ req[p].pc = "idle"
        /\ req' = [req EXCEPT ![p] =
                     andThen(r, Step("catRepo.findAllByUserId", <<userId>>, found), "count",
                             [date |-> date, cats |-> found.value,
                              query |-> [from |-> from, to |-> to, page |-> 1,
                                         limit |-> StatsRowLimit]])]
        /\ UNCHANGED <<seen, cats, logs, bucket, idSeq, clock, probe, keys>>

getDailySummaryCount(p, fault) ==
    LET r == req[p]
    IN  /\ r.op = "getDailySummary" /\ r.pc = "count"
        /\ req' = [req EXCEPT ![p] = FindCount(r, r.userId, r.tmp.query, fault)]
        /\ UNCHANGED <<seen, cats, logs, bucket, idSeq, clock, probe, keys>>

getDailySummaryPage(p, tieAsc, fault) ==
    LET r    == req[p]
        page == FindPage(r, tieAsc, fault)
        r1   == andThen(r, page, "summary", r.tmp)
    IN  /\ r.op = "getDailySummary" /\ r.pc = "page"
        /\ req' = [req EXCEPT ![p] =
                     IF r1.pc = "done" THEN r1
                     ELSE Finish(r1, Step("summary", <<>>,
                              Ok(DailySummaryOf(r.tmp.date, r.tmp.cats, page.result.value.logs))))]
        /\ UNCHANGED <<seen, cats, logs, bucket, idSeq, clock, probe, keys>>

mapPeriod(period) ==
    CASE period = "week"  -> "weekly"
      [] period = "month" -> "monthly"
      [] OTHER            -> "daily"

\* one point per key that occurs among the rows, in key order
aggregateLogs(rows, period) ==
    LET grouped == {getGroupKey(x.timestamp, period) : x \in rows}
        order   == KeysInOrder(grouped)
        Point(key) ==
            LET members    == {x \in rows : getGroupKey(x.timestamp, period) = key}
                urineCount == Cardinality({x \in members : x.type = "urine"})
                fecesCount == Cardinality(members) - urineCount
            IN  [date |-> key, urineCount |-> urineCount, fecesCount |-> fecesCount,
                 totalCount |-> urineCount + fecesCount]
    IN  [i \in 1..Len(order) |-> Point(order[i])]

getChartData(p, userId, query, fault) ==
    LET r      == Invoke("getChartData", userId, Null, query, FALSE)
        v      == validateStatsQuery(query)
        r1     == andThen(r, Step("validate", <<query>>, v), "catCheck", EmptyObject)
        period == mapPeriod(Prop(v.value, "period"))
        catId  == v.value.catId
        st     == SqlSelectCat(cats, logs, catId, userId, fault)
        found  == catRepoFindById(st)
        r2     == andThen(r1, Step("catRepo.findById", <<catId, userId>>, found), "check", EmptyObject)
        logQuery == With(With(Strip(v.value, {"catId", "from", "to"}), "page", 1),
                         "limit", StatsRowLimit)
        Go(rr, cid, cname) ==
            [rr EXCEPT !.pc = "count",
                       !.tmp = [catId |-> cid, catName |-> cname, period |-> period,
                                query |-> logQuery]]
        chk    == FoundOr(found.value, "cat", catId)
        r3     == andThen(r2, Step("check", <<>>, chk), "count", EmptyObject)
    IN  /\ req[p].pc = "idle"
        /\ req' = [req EXCEPT ![p] =
                     IF r1.pc = "done" THEN r1
                     ELSE IF ~Has(v.value, "catId") THEN Go(r1, Null, Null)
                     ELSE IF r2.pc = "done" THEN r2
                     ELSE IF r3.pc = "done" THEN r3
                     ELSE Go(r3, Some(chk.value.id), Some(chk.value.name))]
        /\ UNCHANGED <<seen, cats, logs, bucket, idSeq, clock, probe, keys>>

getChartDataCount(p, fault) ==
    LET r == req[p]
    IN  /\ r.op = "getChartData" /\ r.pc = "count"
        /\ req' = [req EXCEPT ![p] = FindCount(r, r.userId, r.tmp.query, fault)]
        /\ UNCHANGED <<seen, cats, logs, bucket, idSeq, clock, probe, keys>>

getChartDataPage(p, tieAsc, fault) ==
    LET r    == req[p]
        page == FindPage(r, tieAsc, fault)
        r1   == andThen(r, page, "aggregate", r.tmp)
    IN  /\ r.op = "getChartData" /\ r.pc = "page"
        /\ req' = [req EXCEPT ![p] =
                     IF r1.pc = "done" THEN r1
                     ELSE Finish(r1, Step("aggregate", <<>>,
                              Ok([catId |-> r.tmp.catId, catName |-> r.tmp.catName,
                                  period |-> r.tmp.period,
                                  data |-> aggregateLogs(page.result.value.logs, r.tmp.period)])))]
        /\ UNCHANGED <<seen, cats, logs, bucket, idSeq, clock, probe, keys>>

(***************************************************************************)
(* Image storage service and image workflows.  An object key               *)
(* "cats/{catId}/{Date.now()}.{ext}" is <<"cats", catId, <<ms, ext>>>>; a  *)
(* URL is the sequence of its "/"-separated segments.                      *)
(***************************************************************************)
ALLOWED_MIME_TYPES == {"image/jpeg", "image/png", "image/gif", "image/webp"}
MAX_FILE_SIZE == 5 * 1024 * 1024
PublicUrl == <<"https:", "", "images.nekolog.example">>

validateFile(file) ==
    IF file.size > MAX_FILE_SIZE
        THEN Err(validation("image", "file size must be 5MB or less"))
    ELSE IF file.type \notin ALLOWED_MIME_TYPES
        THEN Err(validation("image", "unsupported file format"))
    ELSE Ok(file)

getExtension(mimeType) ==
    CASE mimeType = "image/jpeg" -> "jpg"
      [] mimeType = "image/png"  -> "png"
      [] mimeType = "image/gif"  -> "gif"
      [] mimeType = "image/webp" -> "webp"
      [] OTHER                   -> "bin"

\* Date.now(): milliseconds
DateNow == (8 * 3600 + clock) * 1000

\* url.split("/").slice(-3).join("/")
KeyOfUrl(url) == SubSeq(url, Len(url) - 2, Len(url))

uploadCatImage(p, userId, catId, file, fault) ==
    LET r     == Invoke("uploadCatImage", userId, catId, [file |-> file], FALSE)
        st    == SqlSelectCat(cats, logs, catId, userId, fault)
        found == catRepoFindById(st)
        r1    == andThen(r, Step("catRepo.findById", <<catId, userId>>, found), "check", EmptyObject)
        r2    == andThen(r1, Step("check", <<>>, FoundOr(found.value, "cat", catId)), "upload",
                         EmptyObject)
        path  == <<"cats", catId>>
        vf    == validateFile(file[1])
        key   == path \o <<<<DateNow, getExtension(file[1].type)>>>>
    IN  /\ req[p].pc = "idle"
        /\ req' = [req EXCEPT ![p] =
                     IF file = Null
                         THEN Finish(r, Step("file", <<file>>,
                                             Err(validation("image", "image file is required"))))
                     ELSE IF r1.pc = "done" THEN r1
                     ELSE IF r2.pc = "done" THEN r2
                     ELSE IF ~vf.ok
                         THEN Finish(r2, Step("imageStorage.upload", <<file[1], path>>, vf))
                         ELSE [r2 EXCEPT !.pc = "put", !.tmp = [path |-> path, key |-> key]]]
        /\ UNCHANGED <<seen, cats, logs, bucket, idSeq, clock, probe, keys>>

\* bucket.put(key, buffer), then the url of the object
uploadCatImagePut(p, fault) ==
    LET r   == req[p]
        key == r.tmp.key
        res == IF fault THEN Err(database("failed to upload the image"))
               ELSE Ok([url |-> PublicUrl \o key, key |-> key])
    IN  /\ r.op = "uploadCatImage" /\ r.pc = "put"
        /\ req' = [req EXCEPT ![p] =
                     andThen(r, Step("imageStorage.upload", <<r.input.file[1], r.tmp.path>>, res),
                             "update", [set |-> [imageUrl |-> Some(res.value.url)]])]
        /\ bucket' = IF fault THEN bucket ELSE bucket \cup {key}
        /\ UNCHANGED <<seen, cats, logs, idSeq, clock, probe, keys>>

deleteCatImage(p, userId, catId, fault) ==
    LET r     == Invoke("deleteCatImage", userId, catId, EmptyObject, FALSE)
        st    == SqlSelectCat(cats, logs, catId, userId, fault)
        found == catRepoFindById(st)
        r1    == andThen(r, Step("catRepo.findById", <<catId, userId>>, found), "check", EmptyObject)
        chk   == FoundOr(found.value, "cat", catId)
        clear == [set |-> [imageUrl |-> Null]]
        r2    == andThen(r1, Step("check", <<>>, chk),
                         IF chk.value.imageUrl = Null THEN "update" ELSE "delete",
                         IF chk.value.imageUrl = Null THEN clear
                         ELSE With(clear, "key", KeyOfUrl(chk.value.imageUrl[1])))
    IN  /\ req[p].pc = "idle"
        /\ req' = [req EXCEPT ![p] = IF r1.pc = "done" THEN r1 ELSE r2]
        /\ UNCHANGED <<seen, cats, logs, bucket, idSeq, clock, probe, keys>>

\* bucket.delete(key)
deleteCatImageDelete(p, fault) ==
    LET r   == req[p]
        res == IF fault THEN Err(database("failed to delete the image")) ELSE Ok(Void)
    IN  /\ r.op = "deleteCatImage" /\ r.pc = "delete"
        /\ req' = [req EXCEPT ![p] =
                     andThen(r, Step("imageStorage.delete", <<r.tmp.key>>, res), "update", r.tmp)]
        /\ bucket' = IF fault THEN bucket ELSE bucket \ {r.tmp.key}
        /\ UNCHANGED <<seen, cats, logs, idSeq, clock, probe, keys>>

\* the last step of both image workflows: catRepo.update(catId, userId, { imageUrl })
catImageUpdate(p, fault) ==
    LET r  == req[p]
        st == SqlUpdateCat(cats, logs, r.id, r.userId, With(r.tmp.set, "updatedAt", Now), fault)
    IN  /\ r.op \in {"uploadCatImage", "deleteCatImage"} /\ r.pc = "update"
        /\ req' = [req EXCEPT ![p] =
                     Finish(r, Step("catRepo.update", <<r.id, r.userId, r.tmp.set>>,
                                    catRepoUpdate(st, r.id)))]
        /\ Store(st)
        /\ UNCHANGED <<bucket, idSeq, clock, probe, keys>>

(***************************************************************************)
(* The caller takes the Result; the wall clock advances.                   *)
(***************************************************************************)
Return(p) ==
    /\ req[p].pc = "done"
    /\ req' = [req EXCEPT ![p] = Idle]
    /\ UNCHANGED <<seen, cats, logs, bucket, idSeq, clock, probe, keys>>

Tick ==
    /\ clock < MaxTicks
    /\ clock' = clock + 1
    /\ UNCHANGED <<seen, cats, logs, bucket, idSeq, req, probe, keys>>

(***************************************************************************)
(* The arguments the callers pass.                                         *)
(***************************************************************************)
Ids == {UUID(n) : n \in 1..MaxIds}

Noon == Iso(2024, 1, 15, 12 * 3600, 0)       \* "2024-01-15T12:00:00.000Z"
DateOnly == Iso(2020, 1, 15, -1, -1)         \* "2020-01-15": not a datetime

CatInputs ==
    {[name |-> "Tama"],
     [name |-> ""],
     [breed |-> "Mix"],
     [name |-> "Tama", weight |-> 0],
     [name |-> "Tama", birthDate |-> DateOnly]}

CatPatches == {[name |-> "Mike"], [name |-> ""], [weight |-> 0]}

LogInputs ==
    {[catId |-> c, type |-> t] : c \in Ids, t \in {"urine", "invalid"}}
    \cup {[type |-> "urine"], [catId |-> NotAUuid, type |-> "urine"]}

LogPatches == {[type |-> "feces"], [type |-> "invalid"], [timestamp |-> DateOnly]}

LogsQueries ==
    {EmptyObject, [page |-> 2, limit |-> 1], [page |-> 0], [limit |-> PageLimitMax + 1],
     [type |-> "invalid"]}

StatsQueries ==
    {[period |-> "week"], [period |-> "year"], [catId |-> NotAUuid], [from |-> DateOnly]}
    \cup {[catId |-> c] : c \in Ids}

Files ==
    {Null, Some([size |-> 1024, type |-> "image/png"]),
     Some([size |-> MAX_FILE_SIZE + 1, type |-> "image/png"]),
     Some([size |-> 1024, type |-> "text/plain"])}

Days == {Null, Some(<<2024, 1, 15>>)}

(***************************************************************************)
(* Specification Spec: one client, every workflow, every argument above.   *)
(***************************************************************************)
NoProbe == Null
NoKeys == Null
NoHistory == Null

Init ==
    /\ cats = {}
    /\ logs = {}
    /\ seen = NoHistory
    /\ bucket = {}
    /\ idSeq = 0
    /\ req = [p \in Procs |-> Idle]
    /\ clock = 0
    /\ probe = NoProbe
    /\ keys = NoKeys

Next ==
    \/ \E userId \in Users, input \in CatInputs, fault \in BOOLEAN :
           registerCat(1, userId, input, fault)
    \/ \E userId \in Users, catId \in Ids, input \in CatPatches, fault \in BOOLEAN :
           updateCat(1, userId, catId, input, fault)
    \/ \E userId \in Users, catId \in Ids, confirmed \in BOOLEAN, fault \in BOOLEAN :
           deleteCat(1, userId, catId, confirmed, fault)
    \/ \E userId \in Users, catId \in Ids, fault \in BOOLEAN : getCat(1, userId, catId, fault)
    \/ \E userId \in Users, fault \in BOOLEAN : listCats(1, userId, fault)
    \/ \E userId \in Users, input \in LogInputs, fault \in BOOLEAN :
           addLog(1, userId, input, fault)
    \/ \E fault \in BOOLEAN : addLogCreate(1, fault)
    \/ \E userId \in Users, logId \in Ids, input \in LogPatches, fault \in BOOLEAN :
           updateLog(1, userId, logId, input, fault)
    \/ \E fault \in BOOLEAN : updateLogWrite(1, fault)
    \/ \E userId \in Users, logId \in Ids, confirmed \in BOOLEAN, fault \in BOOLEAN :
           deleteLog(1, userId, logId, confirmed, fault)
    \/ \E fault \in BOOLEAN : deleteLogWrite(1, fault)
    \/ \E userId \in Users, logId \in Ids, fault \in BOOLEAN : getLog(1, userId, logId, fault)
    \/ \E userId \in Users, query \in LogsQueries, fault \in BOOLEAN :
           getHistory(1, userId, query, fault)
    \/ \E tieAsc \in BOOLEAN, fault \in BOOLEAN : getHistoryPage(1, tieAsc, fault)
    \/ \E userId \in Users, todayDate \in Days, fault \in BOOLEAN :
           getDailySummary(1, userId, todayDate, fault)
    \/ \E fault \in BOOLEAN : getDailySummaryCount(1, fault)
    \/ \E tieAsc \in BOOLEAN, fault \in BOOLEAN : getDailySummaryPage(1, tieAsc, fault)
    \/ \E userId \in Users, query \in StatsQueries, fault \in BOOLEAN :
           getChartData(1, userId, query, fault)
    \/ \E fault \in BOOLEAN : getChartDataCount(1, fault)
    \/ \E tieAsc \in BOOLEAN, fault \in BOOLEAN : getChartDataPage(1, tieAsc, fault)
    \/ \E userId \in Users, catId \in Ids, file \in Files, fault \in BOOLEAN :
           uploadCatImage(1, userId, catId, file, fault)
    \/ \E fault \in BOOLEAN : uploadCatImagePut(1, fault)
    \/ \E userId \in Users, catId \in Ids, fault \in BOOLEAN :
           deleteCatImage(1, userId, catId, fault)
    \/ \E fault \in BOOLEAN : deleteCatImageDelete(1, fault)
    \/ \E fault \in BOOLEAN : catImageUpdate(1, fault)
    \/ Return(1)

Spec == Init /\ [][Next]_vars

(***************************************************************************)
(* Properties of the workflow chains.                                      *)
(***************************************************************************)
RepoCalls ==
    {"catRepo.create", "catRepo.update", "catRepo.delete", "catRepo.findById",
     "catRepo.findAllByUserId", "logRepo.create", "logRepo.update", "logRepo.delete",
     "logRepo.findById", "logRepo.findWithFilters"}

Calls(r) == {r.trace[k].call : k \in 1..Len(r.trace)}

ChainWorkflows ==
    {"registerCat", "updateCat", "deleteCat", "getCat", "addLog", "updateLog", "deleteLog",
     "getLog", "getHistory", "getDailySummary", "getChartData", "uploadCatImage",
     "deleteCatImage"}

\* C1 (short-circuit): in every workflow, a step of the chain that returned
\* a failure is the last step the chain ran (no repository or storage call
\* follows it), the workflow has ended, and its Result is that very failure.
ShortCircuit ==
    \A p \in Procs :
        LET r == req[p]
        IN  r.op \in ChainWorkflows =>
                \A k \in 1..Len(r.trace) :
                    ~r.trace[k].result.ok =>
                        /\ k = Len(r.trace)
                        /\ r.pc = "done"
                        /\ r.result = r.trace[k].result

\* the upload to the bucket failed after the cat was found: the workflow
\* ended with the storage error and the cat was not updated
ShortCircuitWitness ==
    LET r == req[1]
    IN  /\ r.op = "uploadCatImage" /\ r.pc = "done"
        /\ Len(r.trace) = 3
        /\ r.trace[3].call = "imageStorage.upload"
        /\ r.result = Err(database("failed to upload the image"))
        /\ "catRepo.update" \notin Calls(r)
        /\ \E c \in cats : c.id = r.id /\ c.userId = r.userId /\ c.imageUrl = Null

\* C2 (confirmation gate): deleteCat and deleteLog invoked with confirmed =
\* false return confirmation-required without calling the repository's
\* delete, and remove no cat and no event, whatever the target is.
ConfirmationGate ==
    [][\A p \in Procs :
          (/\ req[p].pc = "idle"
           /\ req'[p].op \in {"deleteCat", "deleteLog"}
           /\ ~req'[p].confirmed)
          => /\ req'[p].pc = "done"
             /\ req'[p].result = Err(confirmationRequired)
             /\ Calls(req'[p]) \cap RepoCalls = {}
             /\ cats' = cats
             /\ logs' = logs]_vars

\* an unconfirmed deleteCat of a cat the caller owns came back
ConfirmationGateWitness ==
    LET r == req[1]
    IN  /\ r.op = "deleteCat" /\ ~r.confirmed /\ r.pc = "done"
        /\ r.result = Err(confirmationRequired)
        /\ \E c \in cats : c.id = r.id /\ c.userId = r.userId

\* an event with this id exists whose cat belongs to someone else
ForeignEvent(logId, userId) ==
    \E e \in logs : /\ e.id = logId
                    /\ \E c \in cats : c.id = e.catId /\ c.userId # userId

IsolationOutcome(p) ==
    /\ req'[p].pc = "done"
    /\ ~req'[p].result.ok
    /\ \/ req'[p].result.error = notFound("toilet_log", req'[p].id)
       \/ req'[p].result.error.type = "database"     \* the storage engine failed
    /\ logs' = logs
    /\ cats' = cats

SchemaIssues(op, input) ==
    CASE op = "registerCat"  -> catSchemaIssues(input, FALSE)
      [] op = "updateCat"    -> catSchemaIssues(input, TRUE)
      [] op = "addLog"       -> logSchemaIssues(input, FALSE)
      [] op = "updateLog"    -> logSchemaIssues(input, TRUE)
      [] op = "getHistory"   -> logsQueryIssues(input)
      [] op = "getChartData" -> statsQueryIssues(input)

ValidatedWorkflows ==
    {"registerCat", "updateCat", "addLog", "updateLog", "getHistory", "getChartData"}

NewCatInputs ==
    {[name |-> "Tama"],
     [name |-> "Mike", birthDate |-> Noon, breed |-> "Mix", weight |-> 4],
     [name |-> "Tama", weight |-> 4, color |-> "white"],
     [name |-> ""]}

NewLogInputs ==
    UNION {{[catId |-> c, type |-> "urine"],
            [catId |-> c, type |-> "feces", timestamp |-> Noon, note |-> "ok"],
            [catId |-> c, type |-> "urine", note |-> "ok"],
            [catId |-> c, type |-> "invalid"]} : c \in Ids}

NextTime ==
    \/ \E userId \in Users, input \in NewCatInputs, fault \in BOOLEAN :
           registerCat(1, userId, input, fault)
    \/ \E userId \in Users, input \in NewLogInputs, fault \in BOOLEAN :
           addLog(1, userId, input, fault)
    \/ \E fault \in BOOLEAN : addLogCreate(1, fault)
    \/ Return(1)
    \/ Tick

SpecTime == Init /\ [][NextTime]_vars

CallCount(r, call) == Cardinality({k \in 1..Len(r.trace) : r.trace[k].call = call})

\* the value of an optional field: null when omitted
Explicit(input, k) == IF Has(input, k) THEN Some(input[k]) ELSE Null

NextConc ==
    \E p \in Procs :
        \/ \E userId \in Users, fault \in BOOLEAN :
               registerCat(p, userId, [name |-> "Tama"], fault)
        \/ \E userId \in Users, catId \in Ids, fault \in BOOLEAN :
               deleteCat(p, userId, catId, TRUE, fault)
        \/ \E userId \in Users, catId \in Ids, fault \in BOOLEAN :
               addLog(p, userId, [catId |-> catId, type |-> "urine"], fault)
        \/ \E fault \in BOOLEAN : addLogCreate(p, fault)
        \/ \E userId \in Users, logId \in Ids, fault \in BOOLEAN :
               updateLog(p, userId, logId, [type |-> "feces"], fault)
        \/ \E fault \in BOOLEAN : updateLogWrite(p, fault)
        \/ \E userId \in Users, logId \in Ids, fault \in BOOLEAN :
               deleteLog(p, userId, logId, TRUE, fault)
        \/ \E fault \in BOOLEAN : deleteLogWrite(p, fault)
        \/ Return(p)

SpecConc == Init /\ [][NextConc]_vars

\* C10 (referential integrity and cascade): in every state every stored
\* event's catId is the id of a stored cat, and a deleteCat that succeeds
\* leaves no event of that cat behind, also when an addLog for the cat is
\* in flight.
ReferentialIntegrity ==
    /\ [](\A e \in logs : \E c \in cats : c.id = e.catId)
    /\ [][\A p \in Procs :
             (/\ req[p].pc = "idle"
              /\ req'[p].op = "deleteCat"
              /\ req'[p].result # Null
              /\ req'[p].result.ok)
             => /\ ~(\E c \in cats' : c.id = req'[p].id)
                /\ ~(\E e \in logs' : e.catId = req'[p].id)]_vars

\* the cat of an addLog in flight was deleted, and the insert the addLog
\* then ran was refused
ReferentialIntegrityWitness ==
    \E p \in Procs :
        LET r == req[p]
        IN  /\ r.op = "addLog" /\ r.pc = "done"
            /\ "logRepo.create" \in Calls(r)
            /\ r.result = Err(database("Failed to create toilet log"))
            /\ ~(\E c \in cats : c.id = r.input.catId)
            /\ \E q \in Procs \ {p} :
                   /\ req[q].op = "deleteCat" /\ req[q].pc = "done"
                   /\ req[q].result = Ok(Void)
                   /\ req[q].id = r.input.catId

(***************************************************************************)
(* Specification SpecKey: the bucket keys both engines compute for one     *)
(* timestamp, for every day of ProbeDays days from Monday 2023-12-18 on    *)
(* and several times of the day.                                           *)
(***************************************************************************)
ProbeStart == DaysFromCivil(2023, 12, 18)

IsoOn(day, s, f) ==
    LET date == CivilFromDays(day) IN Iso(date[1], date[2], date[3], s, f)

ProbeTimestamps ==
    {IsoOn(ProbeStart + i, 0, 0) : i \in 0..(ProbeDays - 1)}
    \cup {IsoOn(ProbeStart + i, 12 * 3600, -1) : i \in 0..(ProbeDays - 1)}
    \cup {IsoOn(ProbeStart + i, 86399, 999) : i \in 0..(ProbeDays - 1)}

Periods == {"daily", "weekly", "monthly"}

InitKey ==
    /\ cats = {}
    /\ logs = {}
    /\ seen = NoHistory
    /\ bucket = {}
    /\ idSeq = 0
    /\ req = [p \in Procs |-> Idle]
    /\ clock = 0
    /\ probe \in {Some(ts) : ts \in ProbeTimestamps}
    /\ keys = [js |-> NoKeys, sql |-> NoKeys]

\* aggregateLogs, for one row: the key of each period
aggregateLogsKey ==
    /\ keys.js = NoKeys
    /\ keys' = [keys EXCEPT !.js = Some([period \in Periods |-> getGroupKey(probe[1], period)])]
    /\ UNCHANGED <<seen, cats, logs, bucket, idSeq, req, clock, probe>>

\* aggregateByPeriod, for one row: the key of each period
aggregateByPeriodKey ==
    /\ keys.sql = NoKeys
    /\ keys' = [keys EXCEPT !.sql = Some([period \in Periods |-> periodKey(probe[1], period)])]
    /\ UNCHANGED <<seen, cats, logs, bucket, idSeq, req, clock, probe>>

NextKey == aggregateLogsKey \/ aggregateByPeriodKey

SpecKey == InitKey /\ [][NextKey]_vars

\* date minus ((weekday + 6) mod 7) days
MondayOf(timestamp) ==
    LET day == DaysFromCivil(timestamp.y, timestamp.m, timestamp.d)
    IN  CivilFromDays(day - ((DayOfWeek(day) + 6) % 7))

WeeklyKeyIsMonday(key, timestamp) ==
    LET date == getDateKey(timestamp)
    IN  /\ key = MondayOf(timestamp)
        /\ DayOfWeek(DaysFromCivil(key[1], key[2], key[3])) = 1
        /\ date = <<2023, 12, 31>> => key = <<2023, 12, 25>>
        /\ date = <<2024, 1, 1>> => key = <<2024, 1, 1>>
        /\ (date[1] = 2024 /\ date[2] = 1 /\ date[3] \in 8..14) => key = <<2024, 1, 8>>
        /\ date = <<2024, 1, 15>> => key = <<2024, 1, 15>>

\* C6 (weekly bucket key): the weekly key of a timestamp is the date of the
\* Monday of the week its UTC date lies in, that is the date minus
\* ((weekday + 6) mod 7) days: Monday to Sunday of one week share a key, the
\* next Monday's key is 7 days later, also across the turn of a month or a
\* year (2023-12-31 gives 2023-12-25, 2024-01-01 gives 2024-01-01).
WeeklyKey ==
    /\ keys.sql # NoKeys => WeeklyKeyIsMonday(keys.sql[1].weekly, probe[1])
    /\ keys.js # NoKeys => WeeklyKeyIsMonday(keys.js[1].weekly, probe[1])

\* the last second of Sunday 2023-12-31 was keyed 2023-12-25 by the SQL
\* expression
WeeklyKeyWitness ==
    /\ probe = Some(Iso(2023, 12, 31, 86399, 999))
    /\ keys.sql # NoKeys
    /\ keys.sql[1].weekly = <<2023, 12, 25>>

(***************************************************************************)
(* Specification SpecStats: the statistics workflows over stores that hold *)
(* no, two or StatsRowLimit + 1 events of one cat on 2024-01-15.           *)
(***************************************************************************)
BulkEvents == StatsRowLimit + 1

StoredCat(n, userId, name) ==
    InsertedRow(CatColumns, [id |-> UUID(n), userId |-> userId, name |-> name],
                Iso(2024, 1, 10, 9 * 3600, 0))

StoredLog(n, catId, type, timestamp) ==
    InsertedRow(LogColumns, [id |-> UUID(n), catId |-> catId, type |-> type,
                             timestamp |-> timestamp], timestamp)

\* identifiers 1..3 are the cats, 4..9 the scattered events, 10.. the
\* events of Tama on 2024-01-15 (one per second, urine and feces in turn)
StatsCats(withB) ==
    {StoredCat(1, "A", "Tama"), StoredCat(2, "A", "Mike")}
    \cup (IF withB THEN {StoredCat(3, "B", "Sora")} ELSE {})

StatsLogs(events, withB) ==
    {StoredLog(9 + n, UUID(1), IF n % 2 = 1 THEN "urine" ELSE "feces",
               Iso(2024, 1, 15, n, 0)) : n \in 1..events}
    \cup {StoredLog(4, UUID(2), "urine", Iso(2023, 12, 31, 86399, 999)),
          StoredLog(5, UUID(2), "feces", Iso(2024, 1, 14, 12 * 3600, 0)),
          StoredLog(6, UUID(1), "urine", Iso(2024, 1, 16, 3600, 0))}
    \cup (IF withB THEN {StoredLog(7, UUID(3), "urine", Iso(2024, 1, 15, 7200, 0)),
                         StoredLog(8, UUID(3), "feces", Iso(2024, 1, 16, 7200, 0))}
          ELSE {})

InitStats ==
    \E events \in {0, 2, BulkEvents} :
    \E withB \in (IF events = 2 THEN BOOLEAN ELSE {events # 0}) :
        /\ cats = StatsCats(withB)
        /\ logs = StatsLogs(events, withB)
        /\ seen = NoHistory
        /\ bucket = {}
        /\ idSeq = 9 + events
        /\ req = [p \in Procs |-> Idle]
        /\ clock = 0
        /\ probe = NoProbe
        /\ keys = NoKeys

ChartQueries ==
    {EmptyObject, [period |-> "week"], [period |-> "month"], [period |-> "year"],
     [catId |-> UUID(1), period |-> "today"], [catId |-> UUID(3)],
     [from |-> Iso(2024, 1, 15, 0, 0), to |-> Iso(2024, 1, 15, 86399, 999)]}

NextStats ==
    \/ \E userId \in Users, todayDate \in Days, fault \in BOOLEAN :
           getDailySummary(1, userId, todayDate, fault)
    \/ \E fault \in BOOLEAN : getDailySummaryCount(1, fault)
    \/ \E tieAsc \in BOOLEAN, fault \in BOOLEAN : getDailySummaryPage(1, tieAsc, fault)
    \/ \E userId \in Users, query \in ChartQueries, fault \in BOOLEAN :
           getChartData(1, userId, query, fault)
    \/ \E fault \in BOOLEAN : getChartDataCount(1, fault)
    \/ \E tieAsc \in BOOLEAN, fault \in BOOLEAN : getChartDataPage(1, tieAsc, fault)
    \/ Return(1)

SpecStats == InitStats /\ [][NextStats]_vars

EntriesOf(summary) == {summary.cats[i] : i \in 1..Len(summary.cats)}

OnDay(e, date) == getDateKey(e.timestamp) = date

\* C3 (daily summary completeness): the summary of a day reports, for each
\* cat of the owner, as urine count and as feces count the number of that
\* cat's events of the type whose timestamp lies in the day, however many
\* events the day has.
DailySummaryComplete ==
    \A p \in Procs :
        LET r == req[p]
        IN  (r.op = "getDailySummary" /\ r.pc = "done" /\ r.result.ok) =>
                \A c \in {x \in cats : x.userId = r.userId} :
                    \E entry \in EntriesOf(r.result.value) :
                        /\ entry.catId = c.id
                        /\ \A type \in {"urine", "feces"} :
                               entry[type \o "Count"] =
                                   Cardinality({e \in logs : /\ e.catId = c.id
                                                             /\ e.type = type
                                                             /\ OnDay(e, r.result.value.date)})

\* C4 (zero-fill join): the summary has exactly one entry per cat of the
\* owner and none for other cats; a cat without events that day has zero
\* counts; each entry's totalCount is urineCount + fecesCount; the grand
\* totals are the sums over the entries, and all zero without cats.
ZeroFill ==
    \A p \in Procs :
        LET r     == req[p]
            s     == r.result.value
            owned == {x \in cats : x.userId = r.userId}
        IN  (r.op = "getDailySummary" /\ r.pc = "done" /\ r.result.ok) =>
                /\ Len(s.cats) = Cardinality(owned)
                /\ {entry.catId : entry \in EntriesOf(s)} = {c.id : c \in owned}
                /\ \A entry \in EntriesOf(s) :
                       /\ entry.totalCount = entry.urineCount + entry.fecesCount
                       /\ ~(\E e \in logs : e.catId = entry.catId /\ OnDay(e, s.date))
                              => /\ entry.urineCount = 0
                                 /\ entry.fecesCount = 0
                                 /\ entry.totalCount = 0
                /\ s.totalUrineCount = SumOf(s.cats, "urineCount")
                /\ s.totalFecesCount = SumOf(s.cats, "fecesCount")
                /\ s.totalCount = s.totalUrineCount + s.totalFecesCount
                /\ owned = {} => /\ s.cats = <<>>
                                 /\ s.totalUrineCount = 0
                                 /\ s.totalFecesCount = 0
                                 /\ s.totalCount = 0

\* the owner of two cats got two entries: one with counts, and all zeros
\* for the cat without events that day
ZeroFillWitness ==
    LET r == req[1]
    IN  /\ r.op = "getDailySummary" /\ r.pc = "done" /\ r.result.ok
        /\ Len(r.result.value.cats) = 2
        /\ \E zero, some \in EntriesOf(r.result.value) :
               /\ zero.totalCount = 0
               /\ some.urineCount > 0 /\ some.fecesCount > 0
               /\ \E e \in logs : e.catId = zero.catId

\* C5 (chart series completeness): for every bucket key that has a matching
\* event, the chart has a point with the exact urine and feces counts of
\* the matching events of that bucket, however many events are in the range.
ChartSeriesComplete ==
    \A p \in Procs :
        LET r        == req[p]
            chart    == r.result.value
            matching == {e \in logs : MatchesFilters(cats, e, r.userId, r.tmp.query)}
            KeyOf(e) == getGroupKey(e.timestamp, chart.period)
        IN  (r.op = "getChartData" /\ r.pc = "done" /\ r.result.ok) =>
                \A key \in {KeyOf(e) : e \in matching} :
                    \E i \in 1..Len(chart.data) :
                        /\ chart.data[i].date = key
                        /\ chart.data[i].urineCount =
                               Cardinality({e \in matching : KeyOf(e) = key /\ e.type = "urine"})
                        /\ chart.data[i].fecesCount =
                               Cardinality({e \in matching : KeyOf(e) = key /\ e.type = "feces"})

\* the events the chart query of request r selects, and their bucket keys
ChartMatching(r) == {e \in logs : MatchesFilters(cats, e, r.userId, r.tmp.query)}

ChartKeys(r) == {getGroupKey(e.timestamp, r.result.value.period) : e \in ChartMatching(r)}

\* C11 (chart series shape): the chart has exactly one point per bucket key
\* that has a matching event and no point for any other key, the points are
\* in strictly ascending key order, every point's totalCount is its
\* urineCount + fecesCount, and the series is empty when no event matches.
ChartSeriesShape ==
    \A p \in Procs :
        LET r    == req[p]
            data == r.result.value.data
        IN  (r.op = "getChartData" /\ r.pc = "done" /\ r.result.ok) =>
                /\ {data[i].date : i \in 1..Len(data)} = ChartKeys(r)
                /\ \A i \in 1..Len(data) :
                       /\ data[i].totalCount = data[i].urineCount + data[i].fecesCount
                       /\ data[i].totalCount > 0
                /\ \A i \in 1..(Len(data) - 1) : KeyLess(data[i].date, data[i + 1].date)
                /\ ChartMatching(r) = {} => data = <<>>

\* C12 (getDailySummary call protocol): for target date D the workflow first
\* calls catRepo.findAllByUserId(owner), then calls logRepo.aggregateByCat
\* exactly once with (owner, D 00:00:00.000, D 23:59:59.999), and it never
\* calls logRepo.findWithFilters.
DailySummaryProtocol ==
    \A p \in Procs :
        LET r    == req[p]
            D    == r.tmp.date
            from == Iso(D[1], D[2], D[3], 0, 0)
            to   == Iso(D[1], D[2], D[3], 86399, 999)
        IN  r.op = "getDailySummary" =>
                /\ "logRepo.findWithFilters" \notin Calls(r)
                /\ (r.pc = "done" /\ r.result.ok) =>
                       /\ r.trace[1] = Step("catRepo.findAllByUserId", <<r.userId>>,
                                            r.trace[1].result)
                       /\ CallCount(r, "logRepo.aggregateByCat") = 1
                       /\ \A k \in 1..Len(r.trace) :
                              r.trace[k].call = "logRepo.aggregateByCat" =>
                                  k = 2 /\ r.trace[k].args = <<r.userId, from, to>>

\* C13 (getChartData call protocol): after validation the workflow calls
\* logRepo.aggregateByPeriod exactly once with (owner, from, to, granularity,
\* catId or undefined), granularity being daily for period "today" or none,
\* weekly for "week" and monthly for "month"; the chart's period is that
\* granularity; and it never calls logRepo.findWithFilters.
ChartProtocol ==
    \A p \in Procs :
        LET r == req[p]
            q == r.trace[1].result.value
            granularity ==
                IF ~Has(q, "period") \/ q.period = "today" THEN "daily"
                ELSE IF q.period = "week" THEN "weekly" ELSE "monthly"
        IN  r.op = "getChartData" =>
                /\ "logRepo.findWithFilters" \notin Calls(r)
                /\ (r.pc = "done" /\ r.result.ok) =>
                       /\ r.result.value.period = granularity
                       /\ CallCount(r, "logRepo.aggregateByPeriod") = 1
                       /\ \A k \in 1..Len(r.trace) :
                              r.trace[k].call = "logRepo.aggregateByPeriod" =>
                                  r.trace[k].args =
                                      <<r.userId, Prop(q, "from"), Prop(q, "to"), granularity,
                                        PropId(q, "catId")>>

CatRepoCalls ==
    {"catRepo.create", "catRepo.update", "catRepo.delete", "catRepo.findById",
     "catRepo.findAllByUserId"}

LogRepoCalls ==
    {"logRepo.create", "logRepo.update", "logRepo.delete", "logRepo.findById",
     "logRepo.findWithFilters", "logRepo.aggregateByCat", "logRepo.aggregateByPeriod"}

\* C14 (getChartData cat check): when the validated query names a cat, the
\* cat lookup (for that id and the caller) comes before any event query; if
\* the lookup finds no cat of the caller with that id, the result is
\* not-found for resource "cat" and that id and the event repository is never
\* called; a successful response carries the id and name of that cat.  When
\* no cat is named, the cat repository is never called and a successful
\* response carries catId = null and catName = null.
ChartCatCheck ==
    \A p \in Procs :
        LET r      == req[p]
            q      == r.trace[1].result.value
            owned  == {c \in cats : c.id = q.catId /\ c.userId = r.userId}
            lookup == {k \in 1..Len(r.trace) : r.trace[k].call = "catRepo.findById"}
            events == {k \in 1..Len(r.trace) : r.trace[k].call \in LogRepoCalls}
        IN  (r.op = "getChartData" /\ r.trace # <<>> /\ r.trace[1].result.ok) =>
                IF Has(q, "catId")
                THEN /\ lookup = {2}
                     /\ r.trace[2].args = <<q.catId, r.userId>>
                     /\ \A k \in events : k > 2
                     /\ (owned = {} /\ r.trace[2].result.ok) =>
                            /\ r.pc = "done"
                            /\ r.result = Err(notFound("cat", q.catId))
                            /\ events = {}
                     /\ (r.pc = "done" /\ r.result.ok) =>
                            \E c \in owned : /\ r.result.value.catId = Some(c.id)
                                             /\ r.result.value.catName = Some(c.name)
                ELSE /\ Calls(r) \cap CatRepoCalls = {}
                     /\ (r.pc = "done" /\ r.result.ok) =>
                            /\ r.result.value.catId = Null
                            /\ r.result.value.catName = Null

\* a chart was asked for a cat that exists and belongs to another owner
ChartCatCheckWitness ==
    LET r == req[1]
    IN  /\ r.op = "getChartData" /\ r.pc = "done"
        /\ r.userId = "A"
        /\ r.result = Err(notFound("cat", UUID(3)))
        /\ \E c \in cats : c.id = UUID(3) /\ c.userId = "B"
        /\ Calls(r) = {"validate", "catRepo.findById", "check"}

\* C15 (addLog requires an existing owned cat): when the validated catId
\* names no cat of the caller (the cat does not exist or belongs to another
\* owner) and the lookup itself succeeds, addLog returns not-found for
\* resource "cat" and that id, logRepo.create is not called and the events
\* are left as they were.
AddLogNeedsCat ==
    [][\A p \in Procs :
          LET r     == req'[p]
              q     == r.trace[1].result.value
              owned == {c \in cats : c.id = q.catId /\ c.userId = r.userId}
          IN  (/\ req[p].pc = "idle" /\ r.op = "addLog"
               /\ r.trace[1].result.ok
               /\ owned = {}
               /\ r.trace[2].result.ok) =>
                  /\ r.pc = "done"
                  /\ r.result = Err(notFound("cat", q.catId))
                  /\ "logRepo.create" \notin Calls(r)
                  /\ logs' = logs]_vars

\* owner B asked to add an event to a cat of owner A
AddLogNeedsCatWitness ==
    LET r == req[1]
    IN  /\ r.op = "addLog" /\ r.pc = "done" /\ r.userId = "B"
        /\ r.result = Err(notFound("cat", UUID(1)))
        /\ \E c \in cats : c.id = UUID(1) /\ c.userId = "A"
        /\ "logRepo.create" \notin Calls(r)

(***************************************************************************)
(* Specification SpecRepo: the methods of both repositories, called one at *)
(* a time on a store of two owners, with the storage engine rejecting any  *)
(* statement.  A method that runs two statements takes a fault for each.   *)
(***************************************************************************)
\* a call of a repository method that returned `result` and left the
\* tables of st
RepoCall(p, call, args, faults, result, st) ==
    /\ req[p].pc = "idle"
    /\ req' = [req EXCEPT ![p] =
                 Finish([Invoke(call, "", Null, EmptyObject, FALSE) EXCEPT
                             !.tmp = [faults |-> faults]],
                        Step(call, args, result))]
    /\ Store(st)
    /\ UNCHANGED <<bucket, idSeq, clock, probe, keys>>

CatRepository_create(p, cat, fault) ==
    LET st == Raised(SqlInsertCat(cats, logs, cat, Now, fault # Null), fault)
    IN  RepoCall(p, "catRepo.create", <<cat>>, <<fault>>, catRepoCreate(st), st)

CatRepository_update(p, id, userId, data, fault) ==
    LET st == Raised(SqlUpdateCat(cats, logs, id, userId, With(data, "updatedAt", Now),
                                  fault # Null), fault)
    IN  RepoCall(p, "catRepo.update", <<id, userId, data>>, <<fault>>, catRepoUpdate(st, id), st)

CatRepository_delete(p, id, userId, fault) ==
    LET st == Raised(SqlDeleteCat(cats, logs, id, userId, fault # Null), fault)
    IN  RepoCall(p, "catRepo.delete", <<id, userId>>, <<fault>>, catRepoDelete(st, id), st)

CatRepository_findById(p, id, userId, fault) ==
    LET st == Raised(SqlSelectCat(cats, logs, id, userId, fault # Null), fault)
    IN  RepoCall(p, "catRepo.findById", <<id, userId>>, <<fault>>, catRepoFindById(st), st)

CatRepository_findAllByUserId(p, userId, fault) ==
    LET st == Raised(SqlSelectCatsOfUser(cats, logs, userId, fault # Null), fault)
    IN  RepoCall(p, "catRepo.findAllByUserId", <<userId>>, <<fault>>,
                 catRepoFindAllByUserId(st), st)

LogRepository_create(p, log, fault) ==
    LET st == Raised(SqlInsertLog(cats, logs, log, Now, fault # Null), fault)
    IN  RepoCall(p, "logRepo.create", <<log>>, <<fault>>, logRepoCreate(st), st)

LogRepository_update(p, id, userId, data, fault1, fault2) ==
    LET st1 == Raised(SqlSelectLogOfUser(cats, logs, id, userId, fault1 # Null), fault1)
        own == logRepoOwnershipCheck(st1, id, "Failed to update toilet log")
        st2 == Raised(SqlUpdateLog(cats, logs, id, With(data, "updatedAt", Now),
                                   fault2 # Null), fault2)
    IN  IF ~own.ok
        THEN RepoCall(p, "logRepo.update", <<id, userId, data>>, <<fault1>>, own, st1)
        ELSE RepoCall(p, "logRepo.update", <<id, userId, data>>, <<fault1, fault2>>,
                      logRepoUpdate(st2, id), st2)

LogRepository_delete(p, id, userId, fault1, fault2) ==
    LET st1 == Raised(SqlSelectLogOfUser(cats, logs, id, userId, fault1 # Null), fault1)
        own == logRepoOwnershipCheck(st1, id, "Failed to delete toilet log")
        st2 == Raised(SqlDeleteLog(cats, logs, id, fault2 # Null), fault2)
    IN  IF ~own.ok
        THEN RepoCall(p, "logRepo.delete", <<id, userId>>, <<fault1>>, own, st1)
        ELSE RepoCall(p, "logRepo.delete", <<id, userId>>, <<fault1, fault2>>,
                      logRepoDelete(st2, id), st2)

LogRepository_findById(p, id, userId, fault) ==
    LET st == Raised(SqlSelectLogOfUser(cats, logs, id, userId, fault # Null), fault)
    IN  RepoCall(p, "logRepo.findById", <<id, userId>>, <<fault>>, logRepoFindById(st), st)

LogRepository_findWithFilters(p, userId, query, tieAsc, fault1, fault2) ==
    LET st1 == Raised(SqlCountLogs(cats, logs, userId, query, fault1 # Null), fault1)
        cnt == logRepoFindCount(st1)
        st2 == Raised(SqlSelectLogsPage(cats, logs, userId, query, query.limit,
                                        (query.page - 1) * query.limit, tieAsc,
                                        fault2 # Null), fault2)
    IN  IF ~cnt.ok
        THEN RepoCall(p, "logRepo.findWithFilters", <<userId, query>>, <<fault1>>, cnt, st1)
        ELSE RepoCall(p, "logRepo.findWithFilters", <<userId, query>>, <<fault1, fault2>>,
                      logRepoFindWithFilters(st2, cnt.value, query.page, query.limit, tieAsc),
                      st2)

LogRepository_aggregateByCat(p, userId, from, to, fault) ==
    LET st == Raised(SqlAggregateByCat(cats, logs, userId, from, to, fault # Null), fault)
    IN  RepoCall(p, "logRepo.aggregateByCat", <<userId, from, to>>, <<fault>>,
                 logRepoAggregateByCat(st), st)

LogRepository_aggregateByPeriod(p, userId, from, to, period, catId, fault) ==
    LET st == Raised(SqlAggregateByPeriod(cats, logs, userId, from, to, period, catId,
                                          fault # Null), fault)
    IN  RepoCall(p, "logRepo.aggregateByPeriod", <<userId, from, to, period, catId>>,
                 <<fault>>, logRepoAggregateByPeriod(st), st)

\* the Errors the engine rejects a statement with, or none
Faults == {Null, Some(EngineError("D1_ERROR: no such table: toilet_logs: SQLITE_ERROR"))}

\* identifiers 1, 2 are the cats, 3, 4 the events of the store; 5 and 6 are
\* not in the store at the start, and 7 never is
InitRepo ==
    /\ cats = {StoredCat(1, "A", "Tama"), StoredCat(2, "B", "Sora")}
    /\ logs = {StoredLog(3, UUID(1), "urine", Noon),
               StoredLog(4, UUID(2), "feces", Iso(2024, 1, 14, 86399, 999))}
    /\ seen = NoHistory
    /\ bucket = {}
    /\ idSeq = 4
    /\ req = [p \in Procs |-> Idle]
    /\ clock = 0
    /\ probe = NoProbe
    /\ keys = NoKeys

RepoCatIds == {UUID(1), UUID(2), UUID(5)}
RepoLogIds == {UUID(3), UUID(4), UUID(6)}

NextRepo ==
    \/ \E id \in {UUID(1), UUID(5)}, fault \in Faults :
           CatRepository_create(1, NewCat(id, "A", [name |-> "Mike"]), fault)
    \/ \E id \in RepoCatIds, userId \in Users, fault \in Faults :
           CatRepository_update(1, id, userId, [name |-> "Mike"], fault)
    \/ \E id \in RepoCatIds, userId \in Users, fault \in Faults :
           CatRepository_delete(1, id, userId, fault)
    \/ \E id \in RepoCatIds, userId \in Users, fault \in Faults :
           CatRepository_findById(1, id, userId, fault)
    \/ \E userId \in Users, fault \in Faults : CatRepository_findAllByUserId(1, userId, fault)
    \/ \E id \in {UUID(3), UUID(6)}, catId \in {UUID(1), UUID(7)}, fault \in Faults :
           LogRepository_create(1, NewLog(id, [catId |-> catId, type |-> "urine"], Now), fault)
    \/ \E id \in RepoLogIds, userId \in Users, fault1 \in Faults, fault2 \in Faults :
           LogRepository_update(1, id, userId, [type |-> "feces"], fault1, fault2)
    \/ \E id \in RepoLogIds, userId \in Users, fault1 \in Faults, fault2 \in Faults :
           LogRepository_delete(1, id, userId, fault1, fault2)
    \/ \E id \in RepoLogIds, userId \in Users, fault \in Faults :
           LogRepository_findById(1, id, userId, fault)
    \/ \E userId \in Users, query \in {[page |-> 1, limit |-> DefaultLimit],
                                       [page |-> 2, limit |-> 1, type |-> "urine"]},
          tieAsc \in BOOLEAN, fault1 \in Faults, fault2 \in Faults :
           LogRepository_findWithFilters(1, userId, query, tieAsc, fault1, fault2)
    \/ \E userId \in Users, fault \in Faults :
           LogRepository_aggregateByCat(1, userId, Iso(2024, 1, 15, 0, 0),
                                        Iso(2024, 1, 15, 86399, 999), fault)
    \/ \E userId \in Users, period \in Periods, catId \in {UndefinedId, UUID(1)},
          fault \in Faults :
           LogRepository_aggregateByPeriod(1, userId, Iso(2024, 1, 1, 0, 0),
                                           Iso(2024, 1, 31, 86399, 999), period, catId, fault)
    \/ Return(1)

SpecRepo == InitRepo /\ [][NextRepo]_vars

RepoMethods == CatRepoCalls \cup LogRepoCalls

\* the message each method gives its database error
FixedMessage(call) ==
    CASE call = "catRepo.create"            -> "Failed to create cat"
      [] call = "catRepo.update"            -> "Failed to update cat"
      [] call = "catRepo.delete"            -> "Failed to delete cat"
      [] call = "catRepo.findById"          -> "Failed to find cat"
      [] call = "catRepo.findAllByUserId"   -> "Failed to find cats"
      [] call = "logRepo.create"            -> "Failed to create toilet log"
      [] call = "logRepo.update"            -> "Failed to update toilet log"
      [] call = "logRepo.delete"            -> "Failed to delete toilet log"
      [] call = "logRepo.findById"          -> "Failed to find toilet log"
      [] call = "logRepo.findWithFilters"   -> "Failed to find toilet logs"
      [] call = "logRepo.aggregateByCat"    -> "Failed to aggregate toilet logs by cat"
      [] call = "logRepo.aggregateByPeriod" -> "Failed to aggregate toilet logs by period"

\* the texts the engine's Errors carry
RawTexts == {f[1].message : f \in Faults \ {Null}} \cup {StmtFailed({}, {}).error.message}

InternalMessage == "internal: server error, try again later"

\* c.json(body, status)
Json(body, status) == [status |-> status, body |-> body]

\* mutant: a database error is sent as it is, like the other kinds
handleDomainErrorVerbatim(error) ==
    CASE error.type = "validation"            -> Json([error |-> error], 400)
      [] error.type = "not_found"             -> Json([error |-> error], 404)
      [] error.type = "unauthorized"          -> Json([error |-> error], 401)
      [] error.type = "confirmation_required" -> Json([error |-> error], 422)
      [] error.type = "database"              -> Json([error |-> error], 500)

handleDomainError(error) ==
    CASE error.type = "validation"            -> Json([error |-> error], 400)
      [] error.type = "not_found"             -> Json([error |-> error], 404)
      [] error.type = "unauthorized"          -> Json([error |-> error], 401)
      [] error.type = "confirmation_required" -> Json([error |-> error], 422)
      [] error.type = "database"              ->
             Json([error |-> [type |-> "internal", message |-> InternalMessage]], 500)

\* the errors the workflows, the repositories and the routes produce
DomainErrorValues ==
    {validation(field, message) :
        field \in {"name", "birthDate", "breed", "weight", "catId", "type", "timestamp",
                   "note", "page", "limit", "period", "file", "unknown"},
        message \in {"Required", "Invalid", "Validation failed"}}
    \cup {notFound(resource, id) : resource \in {"cat", "toilet_log", "image"}, id \in Ids}
    \cup {unauthorized(message) : message \in {"Authentication required", "Invalid token"}}
    \cup {confirmationRequired}
    \cup {database(message) :
             message \in {FixedMessage(call) : call \in RepoMethods} \cup RawTexts
                         \cup {"SQLITE_CONSTRAINT: UNIQUE constraint failed", "DB error"}}

InitHttp ==
    /\ cats = {}
    /\ logs = {}
    /\ seen = NoHistory
    /\ bucket = {}
    /\ idSeq = 0
    /\ req = [p \in Procs |-> Idle]
    /\ clock = 0
    /\ probe \in {Some(error) : error \in DomainErrorValues}
    /\ keys = NoKeys

\* result.match(..., (error) => handleDomainError(c, error))
respondError ==
    /\ keys = NoKeys
    /\ keys' = Some(handleDomainError(probe[1]))
    /\ UNCHANGED <<seen, cats, logs, bucket, idSeq, req, clock, probe>>

NextHttp == respondError

SpecHttp == InitHttp /\ [][NextHttp]_vars

\* C17 (transport mapping): the response to a validation error has status
\* 400, to not_found 404, to unauthorized 401 and to confirmation_required
\* 422, each with the domain error itself as the body's error; the response
\* to a database error has status 500 and a body error of exactly type
\* "internal" and the fixed message, which is not the database error's
\* message and carries no field of it.
TransportMapping ==
    keys # NoKeys =>
        LET error    == probe[1]
            response == keys[1]
            Status   == [validation |-> 400, not_found |-> 404, unauthorized |-> 401,
                         confirmation_required |-> 422, database |-> 500]
        IN  /\ response.status = Status[error.type]
            /\ error.type # "database" => response.body = [error |-> error]
            /\ error.type = "database" =>
                   /\ response.body = [error |-> [type |-> "internal",
                                                  message |-> InternalMessage]]
                   /\ response.body.error.message # error.message

\* a repository's database error was answered with status 500
TransportMappingWitness ==
    /\ probe = Some(database("Failed to create cat"))
    /\ keys # NoKeys
    /\ keys[1].status = 500
    /\ keys[1].body.error.type = "internal"

(***************************************************************************)
(* Specification SpecPage: the result object of findWithFilters for a      *)
(* count of `total` rows and a query with `page` and `limit`.  probe is    *)
(* what the count statement returned and the query, keys the result.       *)
(***************************************************************************)
InitPage ==
    /\ cats = {}
    /\ logs = {}
    /\ seen = NoHistory
    /\ bucket = {}
    /\ idSeq = 0
    /\ req = [p \in Procs |-> Idle]
    /\ clock = 0
    /\ probe \in {Some([total |-> total, page |-> page, limit |-> limit]) :
                     total \in 0..MaxTotal, page \in 1..MaxPage, limit \in 1..PageLimitMax}
    /\ keys = NoKeys

\* findWithFilters from `return { logs, total, page, limit, totalPages }` on
findWithFiltersResult ==
    /\ keys = NoKeys
    /\ keys' = Some(logRepoFindWithFilters(Stmt({}, cats, logs), probe[1].total,
                                           probe[1].page, probe[1].limit, TRUE))
    /\ UNCHANGED <<seen, cats, logs, bucket, idSeq, req, clock, probe>>

NextPage == findWithFiltersResult

SpecPage == InitPage /\ [][NextPage]_vars

\* C18 (pagination arithmetic): for every total >= 0 and every limit in
\* 1..100 the result's totalPages is the least number of pages of `limit`
\* rows that hold `total` rows (the ceiling of total / limit), it is 0
\* exactly when total is 0, and total, page and limit come back unchanged.
PaginationArithmetic ==
    keys # NoKeys =>
        LET q      == probe[1]
            result == keys[1].value
        IN  /\ keys[1].ok
            /\ result.totalPages * q.limit >= q.total
            /\ (result.totalPages - 1) * q.limit < q.total \/ result.totalPages = 0
            /\ result.totalPages = 0 <=> q.total = 0
            /\ result.total = q.total
            /\ result.page = q.page
            /\ result.limit = q.limit

\* 45 rows in pages of 20 are 3 pages
PaginationArithmeticWitness ==
    /\ probe = Some([total |-> 45, page |-> 1, limit |-> DefaultLimit])
    /\ keys # NoKeys
    /\ keys[1].value.totalPages = 3

\* C19 (cat ownership scoping): CatRepository.update and delete called with
\* a cat id that no cat of the given owner has (the cat does not exist or
\* belongs to another owner) return not-found for resource "cat" and that
\* id, and findById returns null and no error (the engine working); each of
\* the three leaves every cat and every event as it was.
CatScoping ==
    [][\A p \in Procs :
          LET r      == req'[p]
              id     == r.trace[1].args[1]
              userId == r.trace[1].args[2]
          IN  (/\ req[p].pc = "idle"
               /\ r.op \in {"catRepo.update", "catRepo.delete", "catRepo.findById"}
               /\ r.tmp.faults = <<Null>>
               /\ ~(\E c \in cats : c.id = id /\ c.userId = userId)) =>
                  /\ r.op # "catRepo.findById" => r.result = Err(notFound("cat", id))
                  /\ r.op = "catRepo.findById" => r.result = Ok(Null)
                  /\ cats' = cats
                  /\ logs' = logs]_vars

\* owner B asked to delete the cat of owner A: the cat and its event remain
CatScopingWitness ==
    LET r == req[1]
    IN  /\ r.op = "catRepo.delete" /\ r.pc = "done"
        /\ r.trace[1].args = <<UUID(1), "B">>
        /\ r.result = Err(notFound("cat", UUID(1)))
        /\ \E c \in cats : c.id = UUID(1) /\ c.userId = "A"
        /\ \E x \in logs : x.catId = UUID(1)

(***************************************************************************)
(* Specification SpecCat: updateCat on a store of two owners' cats, one of *)
(* them with an image, while the clock advances.                           *)
(***************************************************************************)
CatImageUrl == PublicUrl \o <<"cats", UUID(1), <<28800000, "png">>>>

InitCat ==
    /\ cats = {UpdatedRow(StoredCat(1, "A", "Tama"), [imageUrl |-> Some(CatImageUrl)]),
               StoredCat(2, "B", "Sora")}
    /\ logs = {StoredLog(3, UUID(1), "urine", Noon)}
    /\ seen = NoHistory
    /\ bucket = {<<"cats", UUID(1), <<28800000, "png">>>>}
    /\ idSeq = 3
    /\ req = [p \in Procs |-> Idle]
    /\ clock = 0
    /\ probe = NoProbe
    /\ keys = NoKeys

\* request bodies of PUT /cats/:id: empty, one field, two fields, a field
\* the schema rejects, and fields the schema does not know
CatBodies ==
    {EmptyObject, [name |-> "Mike"], [breed |-> "Mix", weight |-> 4], [name |-> ""],
     [weight |-> 5, id |-> UUID(2), userId |-> "B", imageUrl |-> Null]}

NextCat ==
    \/ \E userId \in Users, catId \in Ids, input \in CatBodies, fault \in BOOLEAN :
           updateCat(1, userId, catId, input, fault)
    \/ Return(1)
    \/ Tick

SpecCat == InitCat /\ [][NextCat]_vars

PatchFields == {"name", "birthDate", "breed", "weight"}

\* C20 (updateCat sparse patch): the patch updateCat passes to
\* catRepo.update has exactly those of name, birthDate, breed and weight
\* that the accepted input supplied, with the input's values; a successful
\* update sets those fields and the update timestamp of the one cat and
\* leaves its other columns (id, owner and image reference among them), the
\* other cats and the events as they were; with an empty input only the
\* update timestamp changes.
SparsePatch ==
    [][\A p \in Procs :
          LET r        == req'[p]
              supplied == (DOMAIN r.input) \cap PatchFields
              patch    == r.trace[2].args[3]
          IN  (req[p].pc = "idle" /\ r.op = "updateCat" /\ r.trace[1].result.ok) =>
                  /\ r.trace[2].call = "catRepo.update"
                  /\ DOMAIN patch = supplied
                  /\ \A k \in supplied :
                         patch[k] = IF k = "name" THEN r.input[k] ELSE Some(r.input[k])
                  /\ logs' = logs
                  /\ ~r.result.ok => cats' = cats
                  /\ r.result.ok =>
                         \E old \in cats :
                             LET new == r.result.value
                             IN  /\ old.id = r.id /\ old.userId = r.userId
                                 /\ cats' = (cats \ {old}) \cup {new}
                                 /\ \A k \in supplied : new[k] = patch[k]
                                 /\ new.updatedAt = Now
                                 /\ \A k \in CatColumns \ (supplied \cup {"updatedAt"}) :
                                        new[k] = old[k]
                                 /\ new.id = old.id
                                 /\ new.userId = old.userId
                                 /\ new.imageUrl = old.imageUrl]_vars

\* an empty body was accepted a second later for the cat that has an image:
\* only its update timestamp moved
SparsePatchWitness ==
    LET r == req[1]
    IN  /\ r.op = "updateCat" /\ r.pc = "done" /\ r.result.ok
        /\ r.input = EmptyObject
        /\ r.trace[2].args[3] = EmptyObject
        /\ r.result.value.imageUrl = Some(CatImageUrl)
        /\ r.result.value.name = "Tama"
        /\ r.result.value.updatedAt # r.result.value.createdAt
        /\ clock = 1

\* C21 (no retry): within one workflow invocation every repository method
\* is called at most once, and a repository call that returned a database
\* error is the last step of the chain: the workflow has ended with that
\* very error and no repository method was called after it.
NoRetry ==
    \A p \in Procs :
        LET r == req[p]
        IN  r.op \in ChainWorkflows =>
                /\ \A call \in RepoMethods : CallCount(r, call) <= 1
                /\ \A k \in 1..Len(r.trace) :
                       (/\ r.trace[k].call \in RepoMethods
                        /\ ~r.trace[k].result.ok
                        /\ r.trace[k].result.error.type = "database") =>
                           /\ r.pc = "done"
                           /\ r.result = r.trace[k].result
                           /\ \A j \in (k + 1)..Len(r.trace) :
                                  r.trace[j].call \notin RepoMethods

\* the insert of an addLog failed after the cat was found: the workflow
\* ended with the database error, each repository method called once
NoRetryWitness ==
    LET r == req[1]
    IN  /\ r.op = "addLog" /\ r.pc = "done"
        /\ r.result = Err(database("Failed to create toilet log"))
        /\ CallCount(r, "catRepo.findById") = 1
        /\ CallCount(r, "logRepo.create") = 1
        /\ r.trace[Len(r.trace)].call = "logRepo.create"
        /\ \E c \in cats : c.id = r.input.catId /\ c.userId = r.userId
        /\ logs = {}

(***************************************************************************)
(* Specification SpecDay: getDailySummary over stores that hold any of the *)
(* events stamped around the bounds of 2024-01-15, with and without a      *)
(* fractional part in the text.                                            *)
(***************************************************************************)
\* identifiers 1..3 are the cats, 4..10 the events
DayEvents ==
    {StoredLog(4, UUID(1), "urine", Iso(2024, 1, 14, 86399, 999)),
     StoredLog(5, UUID(1), "feces", Iso(2024, 1, 15, 0, 0)),
     StoredLog(6, UUID(1), "urine", Iso(2024, 1, 15, 0, -1)),
     StoredLog(7, UUID(1), "feces", Iso(2024, 1, 15, 86399, 999)),
     StoredLog(8, UUID(1), "urine", Iso(2024, 1, 15, 86399, -1)),
     StoredLog(9, UUID(1), "feces", Iso(2024, 1, 16, 0, 0)),
     StoredLog(10, UUID(2), "urine", Iso(2024, 1, 15, 12 * 3600, 0))}

InitDay ==
    /\ cats = StatsCats(TRUE)
    /\ logs \in SUBSET DayEvents
    /\ seen = NoHistory
    /\ bucket = {}
    /\ idSeq = 10
    /\ req = [p \in Procs |-> Idle]
    /\ clock = 0
    /\ probe = NoProbe
    /\ keys = NoKeys

NextDay ==
    \/ \E userId \in Users, todayDate \in Days, fault \in BOOLEAN :
           getDailySummary(1, userId, todayDate, fault)
    \/ \E fault \in BOOLEAN : getDailySummaryCount(1, fault)
    \/ \E tieAsc \in BOOLEAN, fault \in BOOLEAN : getDailySummaryPage(1, tieAsc, fault)
    \/ Return(1)

SpecDay == InitDay /\ [][NextDay]_vars

\* the instant an ISO text denotes, in milliseconds from the start of its
\* day: a text without a fractional part denotes the full second
MillisOfDay(t) == t.s * 1000 + (IF t.f = -1 THEN 0 ELSE t.f)

\* the instant of t lies in [D 00:00:00.000, D 23:59:59.999] UTC
InDay(t, D) ==
    /\ <<t.y, t.m, t.d>> = D
    /\ MillisOfDay(t) >= 0
    /\ MillisOfDay(t) <= 86399 * 1000 + 999

\* C22 (day bounds): the summary for date D counts an event exactly when
\* its instant t satisfies D 00:00:00.000 <= t <= D 23:59:59.999 UTC: each
\* entry's urine and feces counts are the numbers of that cat's events of
\* the type whose instant lies in these bounds, the bounds included and the
\* last millisecond before and the first after excluded.
DayBounds ==
    \A p \in Procs :
        LET r == req[p]
            s == r.result.value
        IN  (r.op = "getDailySummary" /\ r.pc = "done" /\ r.result.ok) =>
                \A entry \in EntriesOf(s) :
                    \A type \in {"urine", "feces"} :
                        entry[type \o "Count"] =
                            Cardinality({e \in logs : /\ e.catId = entry.catId
                                                      /\ e.type = type
                                                      /\ InDay(e.timestamp, s.date)})

(***************************************************************************)
(* Specification SpecFind: LogRepository.findWithFilters over stores that  *)
(* hold any of six events of two owners, some stamped in the same second   *)
(* with and without a fractional part, for several filters and pages.      *)
(***************************************************************************)
\* identifiers 1, 2 are the cats, 3..8 the events
FindEvents ==
    {StoredLog(3, UUID(1), "urine", Noon),
     StoredLog(4, UUID(1), "feces", Iso(2024, 1, 15, 12 * 3600, -1)),
     StoredLog(5, UUID(1), "urine", Iso(2024, 1, 15, 12 * 3600, 500)),
     StoredLog(6, UUID(1), "urine", Iso(2024, 1, 14, 86399, 999)),
     StoredLog(7, UUID(2), "urine", Noon),
     StoredLog(8, UUID(1), "feces", Noon)}

InitFind ==
    /\ cats = {StoredCat(1, "A", "Tama"), StoredCat(2, "B", "Sora")}
    /\ logs \in SUBSET FindEvents
    /\ seen = NoHistory
    /\ bucket = {}
    /\ idSeq = 8
    /\ req = [p \in Procs |-> Idle]
    /\ clock = 0
    /\ probe = NoProbe
    /\ keys = NoKeys

FindQueries ==
    {[page |-> page, limit |-> limit] : page \in 1..3, limit \in 1..2}
    \cup {[page |-> 1, limit |-> DefaultLimit, type |-> "urine"],
          [page |-> 1, limit |-> DefaultLimit, catId |-> UUID(1)],
          [page |-> 1, limit |-> DefaultLimit, catId |-> UUID(2), type |-> "feces"],
          [page |-> 1, limit |-> DefaultLimit, from |-> Noon],
          [page |-> 1, limit |-> DefaultLimit, to |-> Iso(2024, 1, 15, 12 * 3600, 250)],
          [page |-> 2, limit |-> 1,
           from |-> Iso(2024, 1, 15, 0, 0), to |-> Iso(2024, 1, 15, 86399, 999)]}

NextFind ==
    \/ \E userId \in Users, query \in FindQueries, tieAsc \in BOOLEAN,
          fault1 \in Faults, fault2 \in Faults :
           LogRepository_findWithFilters(1, userId, query, tieAsc, fault1, fault2)
    \/ Return(1)

SpecFind == InitFind /\ [][NextFind]_vars

\* a <= b for the instants two ISO texts denote
InstantLeq(a, b) ==
    LET da == DaysFromCivil(a.y, a.m, a.d)
        db == DaysFromCivil(b.y, b.m, b.d)
    IN  da < db \/ (da = db /\ MillisOfDay(a) <= MillisOfDay(b))

Min(a, b) == IF a < b THEN a ELSE b

\* C23 (findWithFilters result): total is the number of events whose cat the
\* caller owns and that satisfy every filter supplied (cat, type, from <=
\* timestamp, timestamp <= to); page p of size L holds the events ranked
\* (p - 1) * L + 1 .. p * L of that set in descending timestamp order, at
\* most L of them and in that order; a page beyond the last one is empty
\* and total is still reported.
FindResult ==
    \A p \in Procs :
        LET r      == req[p]
            userId == r.trace[1].args[1]
            q      == r.trace[1].args[2]
            res    == r.result.value
            M      == {e \in logs :
                          /\ \E c \in cats : c.id = e.catId /\ c.userId = userId
                          /\ Has(q, "catId") => e.catId = q.catId
                          /\ Has(q, "type") => e.type = q.type
                          /\ Has(q, "from") => InstantLeq(q.from, e.timestamp)
                          /\ Has(q, "to") => InstantLeq(e.timestamp, q.to)}
            skip   == Min((q.page - 1) * q.limit, Cardinality(M))
            rows   == RowsInOrder(res.logs, res.order)
        IN  (r.op = "logRepo.findWithFilters" /\ r.pc = "done" /\ r.result.ok) =>
                /\ res.total = Cardinality(M)
                /\ res.logs \subseteq M
                /\ Cardinality(res.logs) = Min(q.limit, Cardinality(M) - skip)
                /\ \E above \in SUBSET (M \ res.logs) :
                       /\ Cardinality(above) = skip
                       /\ \A a \in above : \A x \in M \ above :
                              InstantLeq(x.timestamp, a.timestamp)
                       /\ \A x \in res.logs : \A b \in M \ (above \cup res.logs) :
                              InstantLeq(b.timestamp, x.timestamp)
                /\ \A i \in 1..(Len(rows) - 1) :
                       InstantLeq(rows[i + 1].timestamp, rows[i].timestamp)
                /\ (q.page - 1) * q.limit >= Cardinality(M) => res.logs = {}

UpdateAtomic ==
    [][\A p \in Procs :
          (req[p].op = "updateLog" /\ req[p].pc = "write" /\ req'[p].pc = "done") =>
              LET r == req'[p]
              IN  /\ r.result.ok =>
                         \E e \in logs' : e.id = r.id /\ r.result.value = e
                  /\ ~r.result.ok =>
                         r.result.error \in {notFound("toilet_log", r.id),
                                             database("Failed to update toilet log")}
                  /\ \A e \in logs :
                         e \notin logs' =>
                             /\ e.id = r.id
                             /\ \E c \in cats : c.id = e.catId /\ c.userId = r.userId]_vars

\* C26 (single successful delete): of two deleteLog invocations (confirmed)
\* for the same event that run at the same time, one returns success and the
\* other not-found (or a database error when the engine fails); the same
\* for two deleteCat invocations for the same cat.  An identifier is never
\* handed out twice, so two successes for one id are never right.
SingleDelete ==
    \A p, q \in Procs :
        (/\ p # q
         /\ req[p].op \in {"deleteLog", "deleteCat"}
         /\ req[q].op = req[p].op
         /\ req[q].id = req[p].id
         /\ req[p].pc = "done" /\ req[q].pc = "done"
         /\ req[p].result.ok) =>
            /\ ~req[q].result.ok
            /\ \/ req[q].result.error =
                      notFound(IF req[p].op = "deleteCat" THEN "cat" ELSE "toilet_log", req[p].id)
               \/ req[q].result.error.type = "database"

(***************************************************************************)
(* Specification SpecIso: owner A reads (request slot 1) while owner B     *)
(* runs every mutating workflow (request slot 2), on cats and events of    *)
(* both, statement by statement; the engine may reject B's statements.     *)
(* The rows of the store at the start have the identifiers 0 and below;    *)
(* the run hands out 1, 2, ...                                             *)
(***************************************************************************)
IsoCats == {StoredCat(-3, "A", "Tama"), StoredCat(-2, "B", "Sora")}

IsoLogs ==
    {StoredLog(-1, UUID(-3), "urine", Noon), StoredLog(0, UUID(-2), "feces", Noon)}

IsoCatIds == {UUID(-3), UUID(-2)}
IsoLogIds == {UUID(-1), UUID(0)}

InitIso ==
    /\ cats = IsoCats
    /\ logs = IsoLogs
    /\ seen = NoHistory
    /\ bucket = {}
    /\ idSeq = 0
    /\ req = [p \in Procs |-> Idle]
    /\ clock = 0
    /\ probe = NoProbe
    /\ keys = NoKeys

PngFile == Some([size |-> 1024, type |-> "image/png"])

NextIso ==
    \/ listCats(1, "A", FALSE)
    \/ \E catId \in IsoCatIds : getCat(1, "A", catId, FALSE)
    \/ \E logId \in IsoLogIds : getLog(1, "A", logId, FALSE)
    \/ \E query \in {EmptyObject, [page |-> 2, limit |-> 1], [type |-> "feces"]} :
           getHistory(1, "A", query, FALSE)
    \/ \E tieAsc \in BOOLEAN : getHistoryPage(1, tieAsc, FALSE)
    \/ \E todayDate \in Days : getDailySummary(1, "A", todayDate, FALSE)
    \/ getDailySummaryCount(1, FALSE)
    \/ \E tieAsc \in BOOLEAN : getDailySummaryPage(1, tieAsc, FALSE)
    \/ \E query \in {EmptyObject} \cup {[catId |-> c, period |-> "week"] : c \in IsoCatIds} :
           getChartData(1, "A", query, FALSE)
    \/ getChartDataCount(1, FALSE)
    \/ \E tieAsc \in BOOLEAN : getChartDataPage(1, tieAsc, FALSE)
    \/ \E fault \in BOOLEAN : registerCat(2, "B", [name |-> "Mike"], fault)
    \/ \E catId \in IsoCatIds, fault \in BOOLEAN :
           updateCat(2, "B", catId, [name |-> "Mike"], fault)
    \/ \E catId \in IsoCatIds, fault \in BOOLEAN : deleteCat(2, "B", catId, TRUE, fault)
    \/ \E catId \in IsoCatIds, fault \in BOOLEAN :
           addLog(2, "B", [catId |-> catId, type |-> "urine"], fault)
    \/ \E fault \in BOOLEAN : addLogCreate(2, fault)
    \/ \E logId \in IsoLogIds, fault \in BOOLEAN :
           updateLog(2, "B", logId, [type |-> "feces", note |-> "B"], fault)
    \/ \E fault \in BOOLEAN : updateLogWrite(2, fault)
    \/ \E logId \in IsoLogIds, fault \in BOOLEAN : deleteLog(2, "B", logId, TRUE, fault)
    \/ \E fault \in BOOLEAN : deleteLogWrite(2, fault)
    \/ \E catId \in IsoCatIds, fault \in BOOLEAN : uploadCatImage(2, "B", catId, PngFile, fault)
    \/ \E fault \in BOOLEAN : uploadCatImagePut(2, fault)
    \/ \E catId \in IsoCatIds, fault \in BOOLEAN : deleteCatImage(2, "B", catId, fault)
    \/ \E fault \in BOOLEAN : deleteCatImageDelete(2, fault)
    \/ \E fault \in BOOLEAN : catImageUpdate(2, fault)
    \/ \E p \in {1, 2} : Return(p)

SpecIso == InitIso /\ [][NextIso]_vars

\* the cats of an owner and the events of these cats
OwnedBy(userId, c, l) ==
    [cats |-> {x \in c : x.userId = userId},
     logs |-> {e \in l : \E x \in c : x.id = e.catId /\ x.userId = userId}]

\* findWithFilters on the store c, l, the engine working
PageOn(c, l, userId, q, tieAsc) ==
    logRepoFindWithFilters(
        SqlSelectLogsPage(c, l, userId, q, q.limit, (q.page - 1) * q.limit, tieAsc, FALSE),
        logRepoFindCount(SqlCountLogs(c, l, userId, q, FALSE)).value,
        q.page, q.limit, tieAsc)

\* the Result the read r returns when it runs alone on the store c, l with
\* the engine working (rows of one timestamp in the order r met them)
Alone(r, c, l) ==
    CASE r.op = "listCats" ->
             catRepoFindAllByUserId(SqlSelectCatsOfUser(c, l, r.userId, FALSE))
      [] r.op = "getCat" ->
             FoundOr(catRepoFindById(SqlSelectCat(c, l, r.id, r.userId, FALSE)).value,
                     "cat", r.id)
      [] r.op = "getLog" ->
             FoundOr(logRepoFindById(SqlSelectLogOfUser(c, l, r.id, r.userId, FALSE)).value,
                     "toilet_log", r.id)
      [] r.op = "getHistory" ->
             LET v == validateLogsQuery(r.input)
             IN  IF ~v.ok THEN v
                 ELSE PageOn(c, l, r.userId, v.value, r.result.value.order = "newestAsc")
      [] r.op = "getDailySummary" ->
             LET roster == catRepoFindAllByUserId(SqlSelectCatsOfUser(c, l, r.userId, FALSE))
                 rows   == PageOn(c, l, r.userId, r.tmp.query, TRUE).value.logs
             IN  Ok(DailySummaryOf(r.tmp.date, roster.value, rows))
      [] r.op = "getChartData" ->
             LET v      == validateStatsQuery(r.input)
                 period == mapPeriod(Prop(v.value, "period"))
                 q      == With(With(Strip(v.value, {"catId", "from", "to"}), "page", 1),
                                "limit", StatsRowLimit)
                 data   == aggregateLogs(PageOn(c, l, r.userId, q, TRUE).value.logs, period)
                 cat    == FoundOr(catRepoFindById(
                                       SqlSelectCat(c, l, v.value.catId, r.userId, FALSE)).value,
                                   "cat", v.value.catId)
             IN  IF ~v.ok THEN v
                 ELSE IF ~Has(v.value, "catId")
                     THEN Ok([catId |-> Null, catName |-> Null, period |-> period,
                              data |-> data])
                 ELSE IF ~cat.ok THEN cat
                 ELSE Ok([catId |-> Some(cat.value.id), catName |-> Some(cat.value.name),
                          period |-> period, data |-> data])

Reads == {"listCats", "getCat", "getLog", "getHistory", "getDailySummary", "getChartData"}

EngineFailed(r) == ~r.result.ok /\ r.result.error.type = "database"

\* C27 (owner non-interference): whatever owner B invokes (register, update
\* and delete cat, add, update and delete event, image upload and delete,
\* on B's and on A's identifiers), A's cats and events stay as they were,
\* and every listCats, getCat, getLog, getHistory, getDailySummary and
\* getChartData of A returns what it returns on the store B never touched.
NonInterference ==
    /\ OwnedBy("A", cats, logs) = OwnedBy("A", IsoCats, IsoLogs)
    /\ LET r == req[1]
       IN  (r.op \in Reads /\ r.pc = "done" /\ ~EngineFailed(r)) =>
               r.result = Alone(r, IsoCats, IsoLogs)

\* A's history came back with A's one event after B had removed its own cat
\* and events and registered a cat
NonInterferenceWitness ==
    LET r == req[1]
    IN  /\ r.op = "getHistory" /\ r.pc = "done" /\ r.result.ok
        /\ r.input = EmptyObject
        /\ r.result.value.total = 1
        /\ r.result.value.logs = {StoredLog(-1, UUID(-3), "urine", Noon)}
        /\ UUID(-2) \notin {c.id : c \in cats}
        /\ \E c \in cats : c.id = UUID(1) /\ c.userId = "B"
        /\ Cardinality(logs) = 1

(***************************************************************************)
(* Specification SpecSnap: one getDailySummary of owner A (request slot 1) *)
(* while A's other requests (request slot 2) register and delete cats and  *)
(* add, update and delete events, statement by statement.  The observer    *)
(* records every state of the tables from the roster read on: statements   *)
(* write only while the summary is between its first and its last read.    *)
(***************************************************************************)
SnapDay == <<2024, 1, 15>>

SnapCats == {StoredCat(-3, "A", "Tama"), StoredCat(-2, "A", "Mike")}

SnapLogs ==
    {StoredLog(-1, UUID(-3), "urine", Noon), StoredLog(0, UUID(-2), "feces", Noon)}

SnapCatIds == {UUID(-3), UUID(-2)}
SnapLogIds == {UUID(-1), UUID(0)}

InitSnap ==
    /\ cats = SnapCats
    /\ logs = SnapLogs
    /\ seen = Some(<<StoreState(SnapCats, SnapLogs)>>)
    /\ bucket = {}
    /\ idSeq = 0
    /\ req = [p \in Procs |-> Idle]
    /\ clock = 0
    /\ probe = NoProbe
    /\ keys = NoKeys

\* the summary has read the roster and not yet the events
BetweenReads == req[1].op = "getDailySummary" /\ req[1].pc \in {"count", "page"}

Writing == BetweenReads /\ Len(seen[1]) < MaxSeen

NextSnap ==
    \/ getDailySummary(1, "A", Some(SnapDay), FALSE)
    \/ getDailySummaryCount(1, FALSE)
    \/ \E tieAsc \in BOOLEAN : getDailySummaryPage(1, tieAsc, FALSE)
    \/ Writing /\ \E fault \in BOOLEAN : registerCat(2, "A", [name |-> "Sora"], fault)
    \/ Writing /\ \E catId \in SnapCatIds, fault \in BOOLEAN :
                      deleteCat(2, "A", catId, TRUE, fault)
    \/ \E catId \in SnapCatIds, fault \in BOOLEAN :
           addLog(2, "A", [catId |-> catId, type |-> "urine", timestamp |-> Noon], fault)
    \/ Writing /\ \E fault \in BOOLEAN : addLogCreate(2, fault)
    \/ \E logId \in SnapLogIds, fault \in BOOLEAN :
           updateLog(2, "A", logId, [type |-> "feces"], fault)
    \/ Writing /\ \E fault \in BOOLEAN : updateLogWrite(2, fault)
    \/ \E logId \in SnapLogIds, fault \in BOOLEAN : deleteLog(2, "A", logId, TRUE, fault)
    \/ Writing /\ \E fault \in BOOLEAN : deleteLogWrite(2, fault)
    \/ Return(2)

SpecSnap == InitSnap /\ [][NextSnap]_vars

\* what findAllByUserId returns on the table state s, the engine working
RosterOf(s, userId) ==
    catRepoFindAllByUserId(SqlSelectCatsOfUser(s.cats, s.logs, userId, FALSE)).value

ObjectsOf(catId) == {key \in bucket : key[1] = "cats" /\ key[2] = catId}

\* no request is between two steps of a workflow
Quiescent == \A p \in Procs : req[p].pc \in {"idle", "done"}

(***************************************************************************)
(* Specification SpecImage: uploads and deletions of the image of one cat, *)
(* one after another, each step of the bucket and of the engine working or *)
(* failing, the wall clock advancing in between.                           *)
(***************************************************************************)
ImageCat == StoredCat(0, "A", "Tama")

ImageFiles ==
    {Some([size |-> 1024, type |-> "image/png"]), Some([size |-> 1024, type |-> "image/jpeg"])}

InitImage ==
    /\ cats = {ImageCat}
    /\ logs = {}
    /\ seen = NoHistory
    /\ bucket = {}
    /\ idSeq = 0
    /\ req = [p \in Procs |-> Idle]
    /\ clock = 0
    /\ probe = NoProbe
    /\ keys = NoKeys

NextImage ==
    \/ \E file \in ImageFiles, fault \in BOOLEAN :
           uploadCatImage(1, "A", ImageCat.id, file, fault)
    \/ \E fault \in BOOLEAN : uploadCatImagePut(1, fault)
    \/ \E fault \in BOOLEAN : deleteCatImage(1, "A", ImageCat.id, fault)
    \/ \E fault \in BOOLEAN : deleteCatImageDelete(1, fault)
    \/ \E fault \in BOOLEAN : catImageUpdate(1, fault)
    \/ Return(1)
    \/ Tick

SpecImage == InitImage /\ [][NextImage]_vars

\* C29 (image reference consistency): once the invocations of
\* uploadCatImage and deleteCatImage on a cat have returned, failed ones
\* included, every object stored for the cat is the one its imageUrl refers
\* to, and an imageUrl that is not null refers to a stored object.
ImageConsistency ==
    Quiescent =>
        \A c \in cats :
            /\ \A key \in ObjectsOf(c.id) : c.imageUrl = Some(PublicUrl \o key)
            /\ c.imageUrl # Null => KeyOfUrl(c.imageUrl[1]) \in bucket

(***************************************************************************)
(* Specification SpecLog: updateLog on a store with an event of each of    *)
(* two owners, with request bodies that name the fields of the schema and  *)
(* fields that are not the caller's to set.                                *)
(***************************************************************************)
InitLog ==
    /\ cats = {StoredCat(1, "A", "Tama"), StoredCat(2, "A", "Mike"), StoredCat(3, "B", "Sora")}
    /\ logs = {StoredLog(4, UUID(1), "urine", Noon), StoredLog(5, UUID(3), "feces", Noon)}
    /\ seen = NoHistory
    /\ bucket = {}
    /\ idSeq = 5
    /\ req = [p \in Procs |-> Idle]
    /\ clock = 0
    /\ probe = NoProbe
    /\ keys = NoKeys

\* request bodies of PUT /logs/:id: empty, one field, several fields, a
\* field the schema rejects, another parent cat, and fields the schema does
\* not know
LogBodies ==
    {EmptyObject, [type |-> "feces"], [note |-> "soft"],
     [type |-> "feces", timestamp |-> Iso(2024, 1, 2, 15 * 3600, 0), note |-> "soft"],
     [type |-> "invalid"],
     [catId |-> UUID(2), type |-> "feces"],
     [catId |-> UUID(3), id |-> UUID(5), userId |-> "B", createdAt |-> Noon, note |-> "soft"]}

LogBodyIds == {UUID(4), UUID(5), UUID(9)}

NextLog ==
    \/ \E userId \in Users, logId \in LogBodyIds, input \in LogBodies, fault \in BOOLEAN :
           updateLog(1, userId, logId, input, fault)
    \/ \E fault \in BOOLEAN : updateLogWrite(1, fault)
    \/ Return(1)
    \/ Tick

SpecLog == InitLog /\ [][NextLog]_vars

\* the fields of the event a request body may set
SettableLogFields == {"type", "timestamp", "note"}

\* C30 (updateLog frame): a successful updateLog leaves every cat and every
\* other event as it was; the event it names keeps its id, catId and
\* createdAt and every one of type, timestamp and note the body does not
\* supply, takes the supplied ones from the body, and gets the update time.
UpdateLogFrame ==
    [][\A p \in Procs :
          (req[p].op = "updateLog" /\ req[p].pc = "write" /\ req'[p].pc = "done"
           /\ req'[p].result.ok) =>
              LET r        == req[p]
                  supplied == (DOMAIN r.input) \cap SettableLogFields
              IN  /\ cats' = cats
                  /\ {e \in logs' : e.id # r.id} = {e \in logs : e.id # r.id}
                  /\ \A e \in logs :
                         e.id = r.id =>
                             \E n \in logs' :
                                 /\ {x \in logs' : x.id = r.id} = {n}
                                 /\ \A k \in LogColumns \ (supplied \cup {"updatedAt"}) :
                                        n[k] = e[k]
                                 /\ \A k \in supplied :
                                        n[k] = IF k = "note" THEN Some(r.input.note)
                                               ELSE r.input[k]
                                 /\ n.updatedAt = Now]_vars

\* updateLog succeeded on A's event with a body naming B's cat, B's event
\* and a note: the event has the note, and its cat, type and creation time
\* are those of before
UpdateLogFrameWitness ==
    LET r == req[1]
    IN  /\ r.op = "updateLog" /\ r.pc = "done" /\ r.result.ok
        /\ r.id = UUID(4)
        /\ "catId" \in DOMAIN r.input /\ "id" \in DOMAIN r.input
        /\ \E e \in logs :
               /\ e.id = UUID(4) /\ e.catId = UUID(1) /\ e.type = "urine"
               /\ e.note = Some("soft") /\ e.createdAt = Noon
        /\ StoredLog(5, UUID(3), "feces", Noon) \in logs

====
